---- MODULE Spec2Model ----
(***************************************************************************)
(* A model of the Autolife transcription pipeline:                          *)
(*   - SubtitleWorker's class-level task semaphore (subtitle_worker.py),    *)
(*   - BatchManager's task scheduling (processing/batch_manager.py),        *)
(*   - APISession.request and with_retry (network_utils.py),                *)
(*   - Cache: get / put / invalidate / clear / eviction (cache_utils.py).   *)
(*   - SubtitleWorker.process_file over AudioStreamer's chunk plan and     *)
(*     parallel chunk transcription (streaming_utils.py),                   *)
(*   - segment_line and process_segments (media_processororiginal.py),     *)
(*   - the temporary files of concurrent process_file executions.          *)
(* Each component has its own specification; the variables of the other     *)
(* components stay parked at their initial value.                           *)
(***************************************************************************)
EXTENDS Integers, Sequences, FiniteSets, TLC

VARIABLES
    \* ---- SubtitleWorker (modules/workers/subtitle_worker.py)
    sem,            \* SubtitleWorker._task_semaphore._value (class level, shared)
    wpc,            \* position of each worker's run()
    jpc,            \* position of each process_file execution
    stop_flag,      \* SubtitleWorker._stop_flag of each worker
    poll,           \* the last observed iteration of wait_for_resources
    \* ---- BatchManager (modules/processing/batch_manager.py)
    max_concurrent, \* BatchManager.max_concurrent
    tasks,          \* BatchManager._tasks: file -> ProcessingTask
    task_order,     \* insertion order of the _tasks dict
    active_tasks,   \* keys of BatchManager._active_tasks
    is_processing,  \* BatchManager._is_processing
    signals,        \* the Qt signals emitted by the last operation, in order
    \* ---- APISession.request / with_retry (modules/network_utils.py)
    r_mode,         \* which retry loop the call runs
    r_pc,           \* position of the call
    attempt,        \* the local variable attempt
    requests,       \* number of attempts made (session.request / func calls)
    sleeps,         \* number of time.sleep calls made
    outcomes,       \* outcome of every attempt so far, in order
    raised,         \* the exception that reached the caller
    \* ---- Cache (modules/cache_utils.py)
    metadata,       \* Cache.metadata: key -> [last_access, size]
    cache_files,    \* the files of the cache directory: key -> content (0: no file)
    now,            \* datetime.now()
    c_pc,           \* position of the eviction pass _cleanup_old_entries
    total_size,     \* the local variable total_size of the eviction pass
    pass_start,     \* the metadata and files the observed eviction pass started from
    last_call,      \* the last put or invalidate, until another operation removes its entry
    last_get,       \* arguments and result of the last get
    \* ---- process_file / AudioStreamer (subtitle_worker.py, streaming_utils.py)
    MAX_PARALLEL_CHUNKS, \* the constant of that name (constants.py does not set it)
    media,          \* the file: duration (s), size of its audio, target_language
    p_pc,           \* position of process_file
    p_run,          \* number of process_file calls made on the file
    chunk_size,     \* AudioStreamer.chunk_size, in ticks
    total_chunks,   \* AudioStreamer.total_chunks
    chunk_index,    \* the loop variable of stream_chunks
    gen_pc,         \* position of the stream_chunks generator
    chunks,         \* the chunks yielded so far, with their file and their future
    completed,      \* indexes of the chunks in the order process_chunk returned
    p_requests,     \* transcription requests issued by each process_file call
    answered,       \* per call: every chunk's request was answered with a transcription
    transcript,     \* what _process_audio returned
    returned,       \* what the last process_file call returned
    srt,            \* start times of the chunks in the subtitle file written (if any)
    temp_audio,     \* the file .temp/<name>.wav that extract_audio writes: none, wav or bad
    \* ---- segment_line / process_segments (media_processororiginal.py)
    segment,        \* the segment process_segments is at: kind, start, end (ms)
    sentence_no,    \* number of sentences of the segment processed so far
    current_time,   \* the local variable current_time, in ms
    cue,            \* the dict last appended to processed_segments for this segment
    \* ---- temporary files of concurrent process_file executions
    t_file,         \* the media file each execution was submitted with
    t_pc,           \* position of each execution
    t_path,         \* the temporary file each execution is writing, if any
    \* ---- calculate_retry_delay over the attempts of one retry loop (network_utils.py)
    base_delay,     \* the base_delay argument, in ms
    d_attempt,      \* the attempt number of the next call
    delays,         \* per call made: the capped backoff and the delay returned, in ms
    \* ---- the cache directory's file system
    undeletable,    \* keys whose cache file cannot be unlinked (unlink raises every time)
    \* ---- one Cache.get call, statement by statement, beside the other cache operations
    g_pc,           \* where the call is: idle, checked, sized, stored
    g_key,          \* its cache_key
    g_size,         \* what os.path.getsize returned inside _update_metadata
    g_result,       \* what the last call returned
    \* ---- TextFormatter.format_subtitle (language_utils.py)
    sub_text,       \* the words of the text, as their lengths
    sub_lines,      \* the list lines, each line as the lengths of its words
    sub_pc          \* where the call is: start, balancing, returned

semVars   == <<sem, wpc, jpc, stop_flag, poll>>
batchVars == <<max_concurrent, tasks, task_order, active_tasks, is_processing, signals>>
retryVars == <<r_mode, r_pc, attempt, requests, sleeps, outcomes, raised>>
cacheVars == <<metadata, cache_files, now, c_pc, total_size, pass_start, last_call, last_get>>
jobVars   == <<MAX_PARALLEL_CHUNKS, media, p_pc, p_run, chunk_size, total_chunks,
               chunk_index, gen_pc, chunks, completed, p_requests, answered,
               transcript, returned, srt, temp_audio>>
fmtVars   == <<segment, sentence_no, current_time, cue>>
tmpVars   == <<t_file, t_pc, t_path>>
delayVars == <<base_delay, d_attempt, delays>>
diskVars  == <<undeletable>>
getVars   == <<g_pc, g_key, g_size, g_result>>
subVars   == <<sub_text, sub_lines, sub_pc>>
vars      == <<semVars, batchVars, retryVars, cacheVars, jobVars, fmtVars, tmpVars, delayVars, diskVars, getVars, subVars>>

Range(s) == {s[i] : i \in DOMAIN s}

\* What an operation of one component leaves alone: the other components.
SemFrame   == UNCHANGED <<batchVars, retryVars, cacheVars, jobVars, fmtVars, tmpVars, delayVars, diskVars, getVars, subVars>>
BatchFrame == UNCHANGED <<semVars, retryVars, cacheVars, jobVars, fmtVars, tmpVars, delayVars, diskVars, getVars, subVars>>
RetryFrame == UNCHANGED <<semVars, batchVars, cacheVars, jobVars, fmtVars, tmpVars, delayVars, diskVars, getVars, subVars>>
CacheFrame == UNCHANGED <<semVars, batchVars, retryVars, jobVars, fmtVars, tmpVars, delayVars, diskVars, getVars, subVars>>
\* process_file uses the cache; the eviction pass is not running meanwhile.
JobFrame   == UNCHANGED <<semVars, subVars, getVars, diskVars, delayVars, batchVars, retryVars, fmtVars, tmpVars,
                          now, c_pc, total_size, pass_start, last_call, last_get>>

(***************************************************************************)
(* SubtitleWorker: the shared task semaphore                                *)
(***************************************************************************)

\* constants.py: MAX_CONCURRENT_TASKS = 3
MAX_CONCURRENT_TASKS == 3

\* Number of SubtitleWorker instances alive in the process.
NumWorkers == 3
\* Number of files handed to each worker.
FilesPerWorker == 2
\* The batch_size argument of SubtitleWorker.__init__ (its default).
DefaultBatchSize == 3

Workers == 1..NumWorkers
Jobs    == 1..FilesPerWorker

Min2(a, b) == IF a <= b THEN a ELSE b

\* SubtitleWorker.__init__: self.batch_size = min(batch_size, MAX_CONCURRENT_TASKS)
batch_size == Min2(DefaultBatchSize, MAX_CONCURRENT_TASKS)

\* constants.py: MAX_MEMORY_PERCENT = 80.0
MAX_MEMORY_PERCENT == 80
\* Values process.memory_percent() returns
MemoryPercents == {MAX_MEMORY_PERCENT - 30, MAX_MEMORY_PERCENT, MAX_MEMORY_PERCENT + 15}
NoPoll == [w |-> 0, j |-> 0, sampled |-> FALSE, percent |-> 0, result |-> "None"]

\* process_file executions of worker w that occupy a pool thread
Running(w) == {j \in Jobs : jpc[w][j] \in {"waiting", "holding"}}

\* process_file executions that hold a permit (acquired, not yet released)
Holders == {wj \in Workers \X Jobs : jpc[wj[1]][wj[2]] = "holding"}

SemInit ==
    /\ sem = MAX_CONCURRENT_TASKS
    /\ wpc = [w \in Workers |-> "created"]
    /\ jpc = [w \in Workers |-> [j \in Jobs |-> "queued"]]
    /\ stop_flag = [w \in Workers |-> FALSE]
    /\ poll = NoPoll

\* run(): check_ffmpeg, then the ThreadPoolExecutor block; a missing ffmpeg
\* returns at once, which still runs the finally clause.
RunStart(w) ==
    /\ wpc[w] = "created"
    /\ \E ffmpeg_ok \in BOOLEAN :
         wpc' = [wpc EXCEPT ![w] = IF ffmpeg_ok THEN "pool" ELSE "finally_check"]
    /\ UNCHANGED <<sem, jpc, stop_flag, poll>>
    /\ SemFrame

\* A pool thread picks up executor.submit(self.process_file, f).
JobStart(w, j) ==
    /\ wpc[w] = "pool"
    /\ jpc[w][j] = "queued"
    /\ Cardinality(Running(w)) < batch_size
    /\ jpc' = [jpc EXCEPT ![w][j] = "waiting"]
    /\ UNCHANGED <<sem, wpc, stop_flag, poll>>
    /\ SemFrame

\* check_memory_usage never limits admission
check_memory_usage_unchecked(raises, memory_percent) == TRUE

\* check_memory_usage with >= for > and False from the except clause
check_memory_usage_strict(raises, memory_percent) ==
    ~raises /\ memory_percent < MAX_MEMORY_PERCENT

\* check_memory_usage: False when the sample exceeds MAX_MEMORY_PERCENT; True
\* otherwise, and also when memory_percent() raises.
check_memory_usage(raises, memory_percent) ==
    IF raises THEN TRUE
    ELSE IF memory_percent > MAX_MEMORY_PERCENT THEN FALSE ELSE TRUE

\* One iteration of wait_for_resources: the stop flag, the memory sample,
\* then acquire(blocking=False); otherwise sleep and poll again.
WaitForResources(w, j, observe) ==
    /\ jpc[w][j] = "waiting"
    /\ IF stop_flag[w]
       THEN /\ jpc' = [jpc EXCEPT ![w][j] = "done"]
            /\ sem' = sem
            /\ poll' = NoPoll
       ELSE \E raises \in BOOLEAN, memory_percent \in MemoryPercents :
              /\ IF check_memory_usage(raises, memory_percent) /\ sem > 0
                 THEN /\ jpc' = [jpc EXCEPT ![w][j] = "holding"]
                      /\ sem' = sem - 1
                 ELSE /\ jpc' = jpc
                      /\ sem' = sem
              /\ poll' = IF observe
                         THEN [w |-> w, j |-> j, sampled |-> ~raises,
                               percent |-> IF raises THEN 0 ELSE memory_percent,
                               result |-> IF check_memory_usage(raises, memory_percent)
                                          THEN "True" ELSE "False"]
                         ELSE NoPoll
    /\ UNCHANGED <<wpc, stop_flag>>
    /\ SemFrame

\* release_resources(): threading.Semaphore.release() never raises ValueError
release_resources == sem' = sem + 1

\* process_file leaves its inner try block by any path: finally releases.
JobFinish(w, j) ==
    /\ jpc[w][j] = "holding"
    /\ release_resources
    /\ jpc' = [jpc EXCEPT ![w][j] = "done"]
    /\ UNCHANGED <<wpc, stop_flag, poll>>
    /\ SemFrame

\* The with-block of run() ends (shutdown waits for every submitted future).
PoolExit(w) ==
    /\ wpc[w] = "pool"
    /\ \A j \in Jobs : jpc[w][j] = "done"
    /\ wpc' = [wpc EXCEPT ![w] = "finally_check"]
    /\ UNCHANGED <<sem, jpc, stop_flag, poll>>
    /\ SemFrame

\* run(), finally: while self._task_semaphore._value < MAX_CONCURRENT_TASKS
FinalCheck(w) ==
    /\ wpc[w] = "finally_check"
    /\ wpc' = [wpc EXCEPT ![w] = IF sem < MAX_CONCURRENT_TASKS
                                 THEN "finally_release" ELSE "finished"]
    /\ UNCHANGED <<sem, jpc, stop_flag, poll>>
    /\ SemFrame

\* run(), finally: self._task_semaphore.release()
FinalRelease(w) ==
    /\ wpc[w] = "finally_release"
    /\ sem' = sem + 1
    /\ wpc' = [wpc EXCEPT ![w] = "finally_check"]
    /\ UNCHANGED <<jpc, stop_flag, poll>>
    /\ SemFrame

\* stop()
Stop(w) ==
    /\ ~stop_flag[w]
    /\ stop_flag' = [stop_flag EXCEPT ![w] = TRUE]
    /\ UNCHANGED <<sem, wpc, jpc, poll>>
    /\ SemFrame

SemNext ==
    \E w \in Workers :
        \/ RunStart(w)
        \/ PoolExit(w)
        \/ FinalCheck(w)
        \/ FinalRelease(w)
        \/ Stop(w)
        \/ \E j \in Jobs : JobStart(w, j) \/ WaitForResources(w, j, FALSE) \/ JobFinish(w, j)

\* The workers whose admission polls are observed.
AdmitWorkers == {w \in Workers : w <= 2}

AdmitNext ==
    \E w \in AdmitWorkers :
        \/ RunStart(w)
        \/ PoolExit(w)
        \/ FinalCheck(w)
        \/ FinalRelease(w)
        \/ Stop(w)
        \/ \E j \in Jobs : JobStart(w, j) \/ WaitForResources(w, j, TRUE) \/ JobFinish(w, j)

(***************************************************************************)
(* BatchManager                                                             *)
(***************************************************************************)

\* Number of media files that exist on disk; path 0 names a file that does not.
NumFiles == 2
\* Longest list handed to add_files / process_files.
MaxListLen == 2
\* Largest max_concurrent a BatchManager is constructed with.
MaxConcurrentArg == 3

Paths == 0..NumFiles
FileLists == UNION {[1..n -> Paths] : n \in 0..MaxListLen}

Terminal == {"COMPLETED", "FAILED", "CANCELLED"}

\* ProcessingTask.__init__
ProcessingTask(file) ==
    [status |-> "PENDING", error |-> "None", progress |-> 0, result |-> "None"]

\* The values handed to update_progress: below, within and above the range
ProgressValues == {0 - 10, 40, 130}

\* ProcessingTask.update_progress: self.progress = max(0, min(100, value))
update_progress(task, value) ==
    [task EXCEPT !.progress = IF value < 0 THEN 0 ELSE IF value > 100 THEN 100 ELSE value]

\* ProcessingTask.mark_completed
mark_completed(task, result) ==
    [task EXCEPT !.status = "COMPLETED", !.progress = 100, !.result = result]

\* ProcessingTask.mark_failed
mark_failed(task, error) ==
    [task EXCEPT !.status = "FAILED", !.error = error]

\* mark_cancelled that leaves the status as it is
mark_cancelled_kept(task) == task

\* ProcessingTask.mark_cancelled
mark_cancelled(task) == [task EXCEPT !.status = "CANCELLED"]

\* Path(file).exists()
PathExists(file) == file >= 1

\* _validate_file without the check for an already tracked file
_validate_file_untracked(file, tks) == PathExists(file)

\* BatchManager._validate_file
_validate_file(file, tks) ==
    /\ PathExists(file)
    /\ file \notin DOMAIN tks

\* The manager's state as one value, so that the methods compose.
Manager == [tasks |-> tasks, order |-> task_order, active |-> active_tasks,
            proc |-> is_processing, sigs |-> <<>>]

Emit(m, sig) == [m EXCEPT !.sigs = Append(m.sigs, sig)]

\* BatchManager.add_files: the files of the list in turn
RECURSIVE add_files(_, _)
add_files(m, files) ==
    IF files = <<>> THEN m
    ELSE LET file == Head(files)
             m1 == IF _validate_file(file, m.tasks)
                   THEN [m EXCEPT !.tasks = [f \in DOMAIN m.tasks \cup {file} |->
                                                IF f = file THEN ProcessingTask(file)
                                                ELSE m.tasks[f]],
                                  !.order = Append(m.order, file)]
                   ELSE m
         IN add_files(m1, Tail(files))

\* BatchManager._get_next_pending_task: the first PENDING task in dict order, 0 if none
_get_next_pending_task(m) ==
    LET idx == {i \in DOMAIN m.order : m.tasks[m.order[i]].status = "PENDING"}
    IN IF idx = {} THEN 0
       ELSE m.order[CHOOSE i \in idx : \A k \in idx : i <= k]

\* BatchManager._start_task
_start_task(m, file) ==
    Emit([m EXCEPT !.tasks[file].status = "PROCESSING",
                   !.active = m.active \cup {file}],
         <<"job_started", file>>)

\* _process_next_batch without the max_concurrent test: every PENDING task starts
RECURSIVE _process_next_batch_unbounded(_)
_process_next_batch_unbounded(m) ==
    IF ~m.proc THEN m
    ELSE IF _get_next_pending_task(m) # 0
         THEN _process_next_batch_unbounded(_start_task(m, _get_next_pending_task(m)))
         ELSE m

\* BatchManager._process_next_batch
RECURSIVE _process_next_batch(_)
_process_next_batch(m) ==
    IF ~m.proc THEN m
    ELSE IF Cardinality(m.active) < max_concurrent /\ _get_next_pending_task(m) # 0
         THEN _process_next_batch(_start_task(m, _get_next_pending_task(m)))
         ELSE m

\* BatchManager._on_batch_completed
_on_batch_completed(m) == Emit([m EXCEPT !.proc = FALSE], <<"batch_completed", 0>>)

\* BatchManager._cleanup_task
_cleanup_task(m, file) ==
    LET m1 == [m EXCEPT !.active = m.active \ {file}]
    IN IF m1.active = {} /\ m1.proc THEN _on_batch_completed(m1) ELSE m1

\* BatchManager.process_files
process_files(m, files) ==
    LET m1 == IF files # <<>> THEN add_files(m, files) ELSE m
    IN IF DOMAIN m1.tasks = {}
       THEN Emit(m1, <<"batch_completed", 0>>)
       ELSE _process_next_batch([m1 EXCEPT !.proc = TRUE])

\* _on_task_completed looking the task up in _tasks instead of _active_tasks
_on_task_completed_tracked(m, file, result) ==
    IF file \in DOMAIN m.tasks
    THEN _process_next_batch(
             Emit(_cleanup_task([m EXCEPT !.tasks[file] = mark_completed(@, result)], file),
                  <<"job_completed", file>>))
    ELSE m

\* BatchManager._on_task_completed
_on_task_completed(m, file, result) ==
    IF file \in m.active
    THEN _process_next_batch(
             Emit(_cleanup_task([m EXCEPT !.tasks[file] = mark_completed(@, result)], file),
                  <<"job_completed", file>>))
    ELSE m

\* BatchManager._on_task_failed
_on_task_failed(m, file, error) ==
    IF file \in m.active
    THEN _process_next_batch(
             Emit(_cleanup_task([m EXCEPT !.tasks[file] = mark_failed(@, error)], file),
                  <<"job_failed", file>>))
    ELSE m

\* BatchManager.stop_processing: every active task in turn
RECURSIVE CancelActive(_, _)
CancelActive(m, todo) ==
    IF todo = {} THEN m
    ELSE LET file == CHOOSE f \in todo : \A g \in todo : f <= g
         IN CancelActive(Emit([m EXCEPT !.tasks[file] = mark_cancelled(@)],
                              <<"job_cancelled", file>>),
                         todo \ {file})

stop_processing(m) ==
    [CancelActive([m EXCEPT !.proc = FALSE], m.active) EXCEPT !.active = {}]

\* The manager after an operation becomes the state.
Becomes(m) ==
    /\ tasks' = m.tasks
    /\ task_order' = m.order
    /\ active_tasks' = m.active
    /\ is_processing' = m.proc
    /\ signals' = m.sigs
    /\ UNCHANGED max_concurrent

\* BatchManager.__init__ / _initialize
BatchInit ==
    /\ max_concurrent \in 1..MaxConcurrentArg
    /\ tasks = <<>>
    /\ task_order = <<>>
    /\ active_tasks = {}
    /\ is_processing = FALSE
    /\ signals = <<>>

AddFiles ==
    /\ \E files \in FileLists : Becomes(add_files(Manager, files))
    /\ BatchFrame
ProcessFiles ==
    /\ \E files \in FileLists : Becomes(process_files(Manager, files))
    /\ BatchFrame
OnTaskCompleted ==
    /\ \E file \in Paths : Becomes(_on_task_completed(Manager, file, "result"))
    /\ BatchFrame
OnTaskFailed ==
    /\ \E file \in Paths : Becomes(_on_task_failed(Manager, file, "error"))
    /\ BatchFrame
StopProcessing ==
    /\ Becomes(stop_processing(Manager))
    /\ BatchFrame

\* The job reports progress on its task.
UpdateProgress ==
    /\ \E file \in DOMAIN tasks, value \in ProgressValues :
         tasks' = [tasks EXCEPT ![file] = update_progress(@, value)]
    /\ UNCHANGED <<max_concurrent, task_order, active_tasks, is_processing, signals>>
    /\ BatchFrame

BatchNext ==
    \/ AddFiles
    \/ ProcessFiles
    \/ OnTaskCompleted
    \/ OnTaskFailed
    \/ StopProcessing

\* One batch: process_files is called once on a fresh manager and every started
\* task reports completion or failure.
FirstProcessFiles == DOMAIN tasks = {} /\ ProcessFiles
TaskReports == OnTaskCompleted \/ OnTaskFailed

BatchRunNext ==
    \/ FirstProcessFiles
    \/ OnTaskCompleted
    \/ OnTaskFailed

\* The manager's operations and the progress reports of the jobs
ProgressNext ==
    \/ BatchNext
    \/ UpdateProgress

(***************************************************************************)
(* APISession.request and with_retry                                        *)
(***************************************************************************)

\* constants.py: MAX_RETRIES = 3
MAX_RETRIES == 3

\* constants.py: RETRY_STATUS_CODES
RETRY_STATUS_CODES == {408, 429, 500, 502, 503, 504}

\* What one attempt can do: succeed, or raise one of these exceptions.
\* status is the status code of error.response (0: the error has no response).
Err(cls, status) == [cls |-> cls, status |-> status]
Errors ==
    { Err("ConnectionError", 0), Err("Timeout", 0), Err("RequestException", 0),
      Err("HTTPError", 503), Err("HTTPError", 404),
      Err("RetryableError", 0), Err("NonRetryableError", 0), Err("ValueError", 0) }
OK == Err("OK", 0)
\* session.request and raise_for_status raise requests exceptions (or, for a bad
\* argument, some other exception); a wrapped function raises anything.
OutcomesOf(mode) ==
    IF mode = "request"
    THEN {OK} \cup {e \in Errors : e.cls \notin {"RetryableError", "NonRetryableError"}}
    ELSE {OK} \cup Errors
NoError == Err("None", 0)

\* isinstance(e, requests.exceptions.RequestException)
IsRequestException(e) ==
    e.cls \in {"RequestException", "ConnectionError", "Timeout", "HTTPError"}

\* is_retryable_error without the status check: every requests exception retried
is_retryable_error_any_request(e) ==
    e.cls = "RetryableError" \/ e.cls \in {"RequestException", "ConnectionError", "Timeout", "HTTPError"}

\* network_utils.is_retryable_error
is_retryable_error(e) ==
    IF e.cls = "RetryableError" THEN TRUE
    ELSE IF IsRequestException(e)
         THEN IF e.cls \in {"ConnectionError", "Timeout"} THEN TRUE
              ELSE IF e.status # 0 THEN e.status \in RETRY_STATUS_CODES
              ELSE FALSE
         ELSE FALSE

\* The retry_count parameter of request and with_retry (its default)
retry_count == MAX_RETRIES

\* The give-up test one attempt early
BudgetExhaustedEarly(mode, att) == att + 1 >= MAX_RETRIES

\* request, line 141: `attempt == retry_count`; with_retry, line 218: `attempt >= retry_count`
BudgetExhausted(mode, att) ==
    IF mode = "request" THEN att = retry_count ELSE att >= retry_count

\* request, lines 142-144, and with_retry, lines 219-221: what the loop raises
\* when it gives up on error e
GiveUp(mode, e) ==
    IF mode = "request"
    THEN IF IsRequestException(e)
         THEN [cls |-> "NonRetryableError", cause |-> e]
         ELSE [cls |-> e.cls, cause |-> NoError]
    ELSE IF e.cls \in {"RetryableError", "NonRetryableError"}
         THEN [cls |-> e.cls, cause |-> NoError]
         ELSE [cls |-> "NonRetryableError", cause |-> e]

\* The loop without its increment
NextAttemptStuck(att) == att

\* `attempt += 1` after the sleep
NextAttempt(att) == att + 1

NotRaised == [cls |-> "None", cause |-> NoError]

RetryInit ==
    /\ r_mode = "none"
    /\ r_pc = "idle"
    /\ attempt = 0
    /\ requests = 0
    /\ sleeps = 0
    /\ outcomes = <<>>
    /\ raised = NotRaised

\* The caller calls APISession.request or a with_retry-wrapped function.
Call ==
    /\ r_pc = "idle"
    /\ \E mode \in {"request", "with_retry"} : r_mode' = mode
    /\ r_pc' = "try"
    /\ UNCHANGED <<attempt, requests, sleeps, outcomes, raised>>
    /\ RetryFrame

\* One pass through `while attempt <= retry_count`: the attempt and its except
\* clause up to the sleep; once the condition is false, the statement after the
\* loop (request: raise last_error; with_retry: raise NonRetryableError(...)).
AfterLoop(mode, last_error) ==
    IF mode = "request"
    THEN [cls |-> last_error.cls, cause |-> NoError]
    ELSE [cls |-> "NonRetryableError", cause |-> last_error]

Attempt ==
    /\ r_pc = "try"
    /\ IF attempt <= retry_count
       THEN \E o \in OutcomesOf(r_mode) :
              /\ outcomes' = Append(outcomes, o)
              /\ requests' = requests + 1
              /\ IF o = OK
                 THEN /\ r_pc' = "returned"
                      /\ raised' = raised
                 ELSE IF ~is_retryable_error(o) \/ BudgetExhausted(r_mode, attempt)
                      THEN /\ r_pc' = "raised"
                           /\ raised' = GiveUp(r_mode, o)
                      ELSE /\ r_pc' = "sleeping"
                           /\ raised' = raised
       ELSE /\ r_pc' = "raised"
            /\ raised' = AfterLoop(r_mode, outcomes[Len(outcomes)])
            /\ UNCHANGED <<outcomes, requests>>
    /\ UNCHANGED <<r_mode, attempt, sleeps>>
    /\ RetryFrame

\* time.sleep(delay); attempt += 1
Sleep ==
    /\ r_pc = "sleeping"
    /\ sleeps' = sleeps + 1
    /\ attempt' = NextAttempt(attempt)
    /\ r_pc' = "try"
    /\ UNCHANGED <<r_mode, requests, outcomes, raised>>
    /\ RetryFrame

RetryNext ==
    \/ Call
    \/ Attempt
    \/ Sleep

(***************************************************************************)
(* Cache                                                                    *)
(***************************************************************************)

\* Sizes are counted in MiB, so that the sums stay within 32 bits.
GiB == 1024
\* constants.py: CACHE_MAX_SIZE, CACHE_MAX_AGE, CACHE_MIN_FREE_SPACE, MIN_FREE_SPACE_BYTES
CACHE_MAX_SIZE == 10 * GiB
CACHE_MAX_AGE == 7 * 24 * 3600
CACHE_MIN_FREE_SPACE == GiB
MIN_FREE_SPACE_BYTES == GiB

\* Times are multiples of four days (in seconds), sizes multiples of 4 GiB.
ClockTick == 4 * 24 * 3600
SizeUnit == 4 * GiB
\* The clock at construction, in ticks; loaded entries were accessed by then.
MaxInitTick == 2
\* The clock stops here, in ticks.
MaxClockTick == 3
\* A file's content is one of 1..MaxContent; content c is c * SizeUnit bytes long.
MaxContent == 2

Contents == 1..MaxContent
\* os.path.getsize of a file with content c
GetSize(c) == c * SizeUnit

\* The (file_path, params) pairs the callers pass (subtitle_worker.py, 261-315);
\* params is the sorted "k=v" list of the dict.
CacheCalls ==
    { <<"a.mp4", <<"type=audio">> >>,
      <<"a.mp4", <<"type=subtitles">> >>,
      <<"b.mp4", <<"type=audio">> >> }

\* Cache._get_cache_key: the hash of the joined key parts (taken as injective)
_get_cache_key(file_path, params) == <<file_path>> \o params

CacheKeys == {_get_cache_key(c[1], c[2]) : c \in CacheCalls}

RECURSIVE SumSizes(_, _)
SumSizes(md, keys) ==
    IF keys = {} THEN 0
    ELSE LET k == CHOOSE x \in keys : TRUE
         IN md[k].size + SumSizes(md, keys \ {k})

\* sum(data['size'] for data in self.metadata.values())
TotalSize(md) == SumSizes(md, DOMAIN md)

Drop(md, keys) == [k \in DOMAIN md \ keys |-> md[k]]

\* disk_utils.check_disk_space(path, required_bytes=None), called with the
\* keyword arguments args: path is a required positional parameter.
check_disk_space(args, free_bytes) ==
    IF "path" \notin DOMAIN args THEN "TypeError"
    ELSE LET required == IF "required_bytes" \in DOMAIN args
                         THEN args.required_bytes ELSE MIN_FREE_SPACE_BYTES
         IN IF free_bytes < required THEN "False" ELSE "True"

\* Cache.put, line 216: check_disk_space(required_bytes=CACHE_MIN_FREE_SPACE)
PutDiskCheck(free_bytes) ==
    check_disk_space([required_bytes |-> CACHE_MIN_FREE_SPACE], free_bytes)

\* Cache._update_metadata
_update_metadata(md, files, key) ==
    [k \in DOMAIN md \cup {key} |->
        IF k = key THEN [last_access |-> now, size |-> GetSize(files[key])]
        ELSE md[k]]

\* cache_path.unlink() of key's file: it raises every time for an undeletable
\* file, and may raise or succeed for any other.
UnlinkOutcomes(key) == IF key \in undeletable THEN {FALSE} ELSE BOOLEAN

\* The sets of files a sweep over all keys can fail to unlink
StuckSets == {stuck \in SUBSET CacheKeys : undeletable \subseteq stuck}

\* Cache._remove_cache_entry: when the file exists and unlink raises, the
\* exception is logged and the entry stays.
Removable(files, key, unlink_ok) == files[key] = 0 \/ unlink_ok
_remove_metadata(md, files, key, unlink_ok) ==
    IF Removable(files, key, unlink_ok) THEN Drop(md, {key}) ELSE md
_remove_file(files, key, unlink_ok) ==
    IF Removable(files, key, unlink_ok) THEN [files EXCEPT ![key] = 0] ELSE files

\* _cleanup_old_entries, line 121: age > timedelta(seconds=CACHE_MAX_AGE)
Expired(entry) == now - entry.last_access > CACHE_MAX_AGE

\* _cleanup_old_entries, lines 112-124: entries_to_remove
EntriesToRemove(md, files) ==
    {k \in DOMAIN md : files[k] = 0 \/ Expired(md[k])}

\* max() instead of min(): the most recently used entry
NewestKeys(md) ==
    {k \in DOMAIN md : \A j \in DOMAIN md : md[k].last_access >= md[j].last_access}

\* _cleanup_old_entries, lines 132-135: min(..., key=last_access); a tie goes
\* to the first key in dict order, which is any of the tied keys.
OldestKeys(md) ==
    {k \in DOMAIN md : \A j \in DOMAIN md : md[k].last_access <= md[j].last_access}

NoPass == [observed |-> FALSE, metadata |-> <<>>, files |-> <<>>]
NoGet  == [key |-> <<>>, path |-> "None", content |-> 0]
NoPut  == [op |-> "none", key |-> <<>>, data |-> 0]
\* last_call once other operations removed the entries of keys
Forget(keys) == IF last_call.key \in keys THEN NoPut ELSE last_call

\* A metadata.json and cache directory as a previous run can have left them.
LoadedStates ==
    {ms \in [CacheKeys -> [present : BOOLEAN, last_access : 0..MaxInitTick,
                           size : Contents, file : BOOLEAN]] :
        \A k \in CacheKeys :
            ~ms[k].present => (ms[k].last_access = 0 /\ ms[k].size = 1 /\ ~ms[k].file)}

\* Cache.__init__ / _load_metadata
CacheInit ==
    /\ \E ms \in LoadedStates :
         /\ metadata = [k \in {x \in CacheKeys : ms[x].present} |->
                          [last_access |-> ms[k].last_access * ClockTick,
                           size |-> GetSize(ms[k].size)]]
         /\ cache_files = [k \in CacheKeys |-> IF ms[k].file THEN ms[k].size ELSE 0]
    /\ now = MaxInitTick * ClockTick
    /\ c_pc = "idle"
    /\ total_size = 0
    /\ pass_start = NoPass
    /\ last_call = NoPut
    /\ last_get = NoGet

\* Cache.get
Get ==
    \E call \in CacheCalls :
        LET key == _get_cache_key(call[1], call[2])
            hit == key \in DOMAIN metadata /\ cache_files[key] # 0
        IN /\ metadata' = IF hit THEN _update_metadata(metadata, cache_files, key)
                          ELSE metadata
           /\ last_get' = IF hit
                          THEN [key |-> key, path |-> "cache_path",
                                content |-> cache_files[key]]
                          ELSE [key |-> key, path |-> "None", content |-> 0]
           /\ pass_start' = NoPass
           /\ UNCHANGED <<cache_files, now, c_pc, total_size, last_call>>
           /\ CacheFrame

\* Cache.put: data_path holds content data; free_bytes is what the disk has left.
Put ==
    \E call \in CacheCalls, data \in Contents, free_bytes \in {0, 2 * GiB} :
        LET key == _get_cache_key(call[1], call[2])
            stored == PutDiskCheck(free_bytes) = "True"
            files1 == IF stored THEN [cache_files EXCEPT ![key] = data] ELSE cache_files
        IN /\ cache_files' = files1
           /\ metadata' = IF stored THEN _update_metadata(metadata, files1, key)
                          ELSE metadata
           /\ last_call' = [op |-> "put", key |-> key, data |-> data]
           /\ last_get' = NoGet
           /\ pass_start' = NoPass
           /\ UNCHANGED <<now, c_pc, total_size>>
           /\ CacheFrame

\* Cache.invalidate
Invalidate ==
    \E call \in CacheCalls, unlink_ok \in BOOLEAN :
        LET key == _get_cache_key(call[1], call[2])
        IN /\ unlink_ok \in UnlinkOutcomes(key)
           /\ metadata' = _remove_metadata(metadata, cache_files, key, unlink_ok)
           /\ cache_files' = _remove_file(cache_files, key, unlink_ok)
           /\ last_call' = [op |-> "invalidate", key |-> key, data |-> 0]
           /\ last_get' = NoGet
           /\ pass_start' = NoPass
           /\ UNCHANGED <<now, c_pc, total_size>>
           /\ CacheFrame

\* Cache.clear: every key in turn; the files in stuck cannot be unlinked.
Clear ==
    \E stuck \in StuckSets :
        LET gone == {k \in DOMAIN metadata : cache_files[k] = 0 \/ k \notin stuck}
        IN /\ metadata' = Drop(metadata, gone)
           /\ cache_files' = [k \in CacheKeys |-> IF k \in gone THEN 0 ELSE cache_files[k]]
           /\ last_call' = NoPut
           /\ last_get' = NoGet
           /\ pass_start' = NoPass
           /\ UNCHANGED <<now, c_pc, total_size>>
           /\ CacheFrame

\* Time passes.
AdvanceClock ==
    /\ now < MaxClockTick * ClockTick
    /\ now' = now + ClockTick
    /\ UNCHANGED <<metadata, cache_files, c_pc, total_size, pass_start, last_call, last_get>>
    /\ CacheFrame

\* _cleanup_old_entries, lines 107-128: the scan and the removal of the
\* entries found; the files in stuck cannot be unlinked.
CleanupBegin(observe) ==
    /\ c_pc = "idle"
    /\ \E stuck \in StuckSets :
         LET old  == EntriesToRemove(metadata, cache_files)
             gone == {k \in old : cache_files[k] = 0 \/ k \notin stuck}
         IN /\ total_size' = SumSizes(metadata, DOMAIN metadata \ old)
            /\ metadata' = Drop(metadata, gone)
            /\ cache_files' = [k \in CacheKeys |-> IF k \in gone THEN 0 ELSE cache_files[k]]
            /\ last_call' = Forget(gone)
    /\ pass_start' = IF observe
                     THEN [observed |-> TRUE, metadata |-> metadata, files |-> cache_files]
                     ELSE NoPass
    /\ c_pc' = "loop"
    /\ last_get' = NoGet
    /\ UNCHANGED now
    /\ CacheFrame

\* _cleanup_old_entries, lines 131-137: one test of `while total_size >
\* CACHE_MAX_SIZE` and, when it holds, one pass through the body. min() of an
\* empty metadata raises ValueError, which ends the pass.
CleanupLoop ==
    /\ c_pc = "loop"
    /\ IF total_size > CACHE_MAX_SIZE /\ DOMAIN metadata # {}
       THEN \E oldest_key \in OldestKeys(metadata), unlink_ok \in BOOLEAN :
              /\ unlink_ok \in UnlinkOutcomes(oldest_key)
              /\ metadata' = _remove_metadata(metadata, cache_files, oldest_key, unlink_ok)
              /\ cache_files' = _remove_file(cache_files, oldest_key, unlink_ok)
              /\ last_call' = IF Removable(cache_files, oldest_key, unlink_ok)
                             THEN Forget({oldest_key}) ELSE last_call
              /\ total_size' = TotalSize(metadata')
              /\ c_pc' = "loop"
       ELSE /\ c_pc' = "idle"
            /\ UNCHANGED <<metadata, cache_files, last_call, total_size>>
    /\ UNCHANGED <<now, pass_start, last_get>>
    /\ CacheFrame

CacheNext ==
    \/ Get
    \/ Put
    \/ Invalidate
    \/ Clear
    \/ AdvanceClock
    \/ CleanupBegin(FALSE)
    \/ CleanupLoop

\* The eviction pass alone, on a cache nothing else touches.
EvictNext ==
    \/ CleanupBegin(TRUE)
    \/ CleanupLoop

(***************************************************************************)
(* process_file, _process_audio and AudioStreamer                           *)
(***************************************************************************)

\* streaming_utils.py imports these from constants.py, which does not set
\* them. CHUNK_OVERLAP is the documented default of one second; the others are
\* small values of the documented kind (positive integers).
CHUNK_OVERLAP == 1
MAX_CHUNK_DURATION == 3
MIN_CHUNK_SIZE == 2
MAX_CHUNKS_IN_MEMORY == 2

\* MAX_PARALLEL_CHUNKS is one of 1..MaxParallelChunks.
MaxParallelChunks == 2
\* The duration of the file is a whole number of seconds up to MaxDuration.
MaxDuration == 4
\* process_file is called up to MaxRuns times on the file.
MaxRuns == 2

RECURSIVE Factorial(_)
Factorial(n) == IF n <= 1 THEN 1 ELSE n * Factorial(n - 1)

\* Times are counted in ticks, fine enough for duration / MAX_PARALLEL_CHUNKS
\* to be a whole number of ticks.
TicksPerSecond == Factorial(MaxParallelChunks)
Ticks(seconds) == seconds * TicksPerSecond

Max2(a, b) == IF a >= b THEN a ELSE b

\* os.path.getsize of the audio file: a multiple of MAX_CHUNKS_IN_MEMORY, so
\* that file_size / MAX_CHUNKS_IN_MEMORY is a whole number.
FileSizes == {MAX_CHUNKS_IN_MEMORY, 4 * MAX_CHUNKS_IN_MEMORY}

\* _calculate_chunk_size, line 134: size_based, which the code goes on to use
\* as a number of seconds; in ticks
SizeBased(file_size) ==
    Ticks(Max2(MIN_CHUNK_SIZE, file_size \div MAX_CHUNKS_IN_MEMORY))

\* AudioStreamer._calculate_chunk_size: the result in ticks
_calculate_chunk_size(file_size, duration, parallel) ==
    LET time_based == Min2(Ticks(MAX_CHUNK_DURATION), Ticks(duration) \div parallel)
    IN Min2(SizeBased(file_size), time_based)

\* AudioStreamer._calculate_total_chunks: max(1, int(duration / chunk_size))
_calculate_total_chunks(duration, size) == Max2(1, Ticks(duration) \div size)

\* chunk_index * (chunk_duration + overlap)
StartTimeAdded(index, chunk_duration) == index * (chunk_duration + Ticks(CHUNK_OVERLAP))

\* stream_chunks, line 168: start_time = chunk_index * (chunk_duration - overlap)
StartTime(index, chunk_duration) == index * (chunk_duration - Ticks(CHUNK_OVERLAP))

\* stream_chunks, lines 169-174: actual_duration
ActualDuration(index, total, chunk_duration, duration) ==
    IF index = total - 1
    THEN Ticks(duration) - StartTime(index, chunk_duration)
    ELSE chunk_duration

\* The answers of the transcription endpoint to one chunk: a {text},
\* a {segments}, an {error}, or no answer (api_session.request raised).
Responses == {"text", "segments", "error", "raised"}
Transcribed == {"text", "segments"}

\* SubtitleWorker.format_subtitles: it iterates its argument and reads
\* result['transcription'] of each element. Iterating a dict yields its keys,
\* which are strings, and indexing a string with a string raises TypeError.
format_subtitles(kind) == IF kind = "dict" THEN "TypeError" ELSE "subtitles"

\* SubtitleWorker.transcribe_audio, from the answer on: what it returns or raises.
\* Both accepted answers are handed to format_subtitles as a dict.
transcribe_audio(response) ==
    CASE response = "raised" -> "RetryableError"
      [] response = "error" -> "RetryableError"
      [] response \in Transcribed ->
            IF format_subtitles("dict") = "TypeError"
            THEN "NonRetryableError" ELSE "subtitles"

\* process_chunk: the dict it returns for a chunk, given what transcribe_audio did
process_chunk(chunk, outcome) ==
    [start_time |-> chunk.start_time, duration |-> chunk.duration,
     error |-> outcome # "subtitles"]

\* Stable insertion of r into a sequence sorted by start_time
RECURSIVE InsertByStart(_, _)
InsertByStart(sorted, r) ==
    IF sorted = <<>> THEN <<r>>
    ELSE IF sorted[Len(sorted)].start_time <= r.start_time
         THEN Append(sorted, r)
         ELSE Append(InsertByStart(SubSeq(sorted, 1, Len(sorted) - 1), r),
                     sorted[Len(sorted)])

\* list.sort(key=lambda x: x['start_time'])
RECURSIVE SortByStart(_)
SortByStart(rs) ==
    IF rs = <<>> THEN <<>>
    ELSE InsertByStart(SortByStart(SubSeq(rs, 1, Len(rs) - 1)), rs[Len(rs)])

HasNoError(r) == ~r.error

\* _process_audio returns the results as process_parallel collected them
MergeUnfiltered(results) == results

\* _process_audio, lines 249-252: the results without error, sorted by start_time
Merge(results) == SortByStart(SelectSeq(results, HasNoError))

\* The cache keys process_file uses for the file
media_file == "a.mp4"
AudioKey == _get_cache_key(media_file, <<"type=audio">>)
SubtitleKey(target_language) ==
    _get_cache_key(media_file, <<"target_language=" \o target_language, "type=subtitles">>)
JobKeys == {AudioKey, SubtitleKey("es")}

\* Cache.get: a hit needs the metadata entry and the file
CacheHit(key) == key \in DOMAIN metadata /\ cache_files[key] # 0

\* What the ffmpeg run of extract_audio does: a valid WAV file, no file, or a
\* file that fails the checks of lines 164-176 (empty, or without a WAV header)
Extractions == {"ok", "no_file", "bad_file"}

\* extract_audio: what is at its output path afterwards. The method removes
\* nothing, neither when it returns the path nor when it raises.
extract_audio(extraction, before) ==
    IF extraction = "ok" THEN "wav"
    ELSE IF extraction = "bad_file" THEN "bad" ELSE before

NoJob == [n \in 1..MaxRuns |-> 0]
NotAnswered == [n \in 1..MaxRuns |-> FALSE]

JobInit ==
    /\ MAX_PARALLEL_CHUNKS \in 1..MaxParallelChunks
    /\ media \in [duration : 1..MaxDuration, file_size : FileSizes,
                  target_language : {"None", "es"}]
    /\ p_pc = "idle"
    /\ p_run = 0
    /\ chunk_size = 0
    /\ total_chunks = 0
    /\ chunk_index = 0
    /\ gen_pc = "none"
    /\ chunks = <<>>
    /\ completed = <<>>
    /\ p_requests = NoJob
    /\ answered = NotAnswered
    /\ transcript = <<>>
    /\ returned = "nothing"
    /\ srt = <<>>
    /\ temp_audio = "none"

\* The cache a previous session left for the file
JobCacheInit ==
    /\ \E cached \in SUBSET JobKeys :
         /\ metadata = [k \in cached |-> [last_access |-> 0, size |-> GetSize(1)]]
         /\ cache_files = [k \in JobKeys |-> IF k \in cached THEN 1 ELSE 0]
    /\ now = MaxInitTick * ClockTick
    /\ c_pc = "idle"
    /\ total_size = 0
    /\ pass_start = NoPass
    /\ last_call = NoPut
    /\ last_get = NoGet

JobParked ==
    /\ MAX_PARALLEL_CHUNKS = 1
    /\ media = [duration |-> 1, file_size |-> MAX_CHUNKS_IN_MEMORY, target_language |-> "None"]
    /\ p_pc = "idle"
    /\ p_run = 0
    /\ chunk_size = 0
    /\ total_chunks = 0
    /\ chunk_index = 0
    /\ gen_pc = "none"
    /\ chunks = <<>>
    /\ completed = <<>>
    /\ p_requests = NoJob
    /\ answered = NotAnswered
    /\ transcript = <<>>
    /\ returned = "nothing"
    /\ srt = <<>>
    /\ temp_audio = "none"

\* process_file, from the cache lookups to the construction of the
\* AudioStreamer in _process_audio. The permit is taken before and released
\* after (see WaitForResources and JobFinish). The file is processed at most
\* calls times.
ProcessFile(calls) ==
    /\ p_pc \in {"idle", "done"}
    /\ p_run < calls
    /\ p_run' = p_run + 1
    /\ \E extraction \in Extractions, free_bytes \in {0, 2 * GiB} :
         LET tl == media.target_language
             extracted == extraction = "ok"
             \* line 409: cache_params is None without a target language, and
             \* {'type': 'subtitles', **None} raises TypeError (line 273)
             type_error == tl = "None"
             subtitles_hit == ~type_error /\ CacheHit(SubtitleKey(tl))
             audio_hit == CacheHit(AudioKey)
             stored == PutDiskCheck(free_bytes) = "True"
             starts == ~type_error /\ ~subtitles_hit /\ (audio_hit \/ extracted)
             files1 == IF starts /\ ~audio_hit /\ stored
                       THEN [cache_files EXCEPT ![AudioKey] = 1] ELSE cache_files
             size == _calculate_chunk_size(media.file_size, media.duration,
                                           MAX_PARALLEL_CHUNKS)
         IN /\ temp_audio' = IF type_error \/ subtitles_hit \/ audio_hit
                              THEN temp_audio
                              ELSE extract_audio(extraction, temp_audio)
            /\ cache_files' = files1
            /\ metadata' =
                 IF subtitles_hit
                 THEN _update_metadata(metadata, cache_files, SubtitleKey(tl))
                 ELSE IF starts /\ (audio_hit \/ stored)
                      THEN _update_metadata(metadata, files1, AudioKey)
                      ELSE metadata
            /\ IF starts
               THEN /\ p_pc' = "parallel"
                    /\ gen_pc' = "running"
                    /\ chunk_size' = size
                    /\ total_chunks' = _calculate_total_chunks(media.duration, size)
                    /\ returned' = "nothing"
               ELSE /\ p_pc' = "done"
                    /\ gen_pc' = "none"
                    /\ chunk_size' = 0
                    /\ total_chunks' = 0
                    /\ returned' = IF subtitles_hit THEN "cached" ELSE "None"
    /\ chunk_index' = 0
    /\ chunks' = <<>>
    /\ completed' = <<>>
    /\ transcript' = <<>>
    /\ UNCHANGED <<MAX_PARALLEL_CHUNKS, media, p_requests, answered, srt>>
    /\ JobFrame

\* stream_chunks, lines 164-206, and process_parallel, lines 244-249: the next
\* chunk is extracted into a new temporary file and yielded, and its
\* process_func is submitted to the pool; a failed extraction removes the
\* file and raises StreamingError.
ExtractChunk ==
    /\ p_pc = "parallel"
    /\ gen_pc = "running"
    /\ \E success \in BOOLEAN :
         IF success
         THEN /\ chunks' = Append(chunks,
                    [start_time |-> StartTime(chunk_index, chunk_size),
                     duration |-> ActualDuration(chunk_index, total_chunks,
                                                 chunk_size, media.duration),
                     file |-> TRUE, fut |-> "queued",
                     response |-> "none", outcome |-> "none"])
              /\ gen_pc' = "yielded"
         ELSE /\ chunks' = chunks
              /\ gen_pc' = "failed"
    /\ UNCHANGED <<temp_audio, MAX_PARALLEL_CHUNKS, media, p_pc, p_run, chunk_size, total_chunks,
                   chunk_index, completed, p_requests, answered, transcript,
                   returned, srt, metadata, cache_files>>
    /\ JobFrame

\* stream_chunks, lines 208-214: process_parallel asks for the next chunk, the
\* generator resumes after its yield and its finally clause removes the file
\* of the chunk it had yielded; then the loop goes on or ends.
ResumeGenerator ==
    /\ p_pc = "parallel"
    /\ gen_pc = "yielded"
    /\ chunks' = [chunks EXCEPT ![Len(chunks)].file = FALSE]
    /\ chunk_index' = chunk_index + 1
    /\ gen_pc' = IF chunk_index + 1 = total_chunks THEN "exhausted" ELSE "running"
    /\ UNCHANGED <<temp_audio, MAX_PARALLEL_CHUNKS, media, p_pc, p_run, chunk_size, total_chunks,
                   completed, p_requests, answered, transcript, returned, srt,
                   metadata, cache_files>>
    /\ JobFrame

\* process_parallel, line 239: max_workers
max_workers == Min2(MAX_PARALLEL_CHUNKS, total_chunks)

\* No plan has more chunks than the file has ticks.
ChunkIndexes == 1..Ticks(MaxDuration)

InPool == {i \in DOMAIN chunks : chunks[i].fut \in {"running", "requesting"}}

\* A pool thread takes the next submitted process_func.
ChunkStart(i) ==
    /\ i \in DOMAIN chunks
    /\ chunks[i].fut = "queued"
    /\ \A k \in 1..(i - 1) : chunks[k].fut # "queued"
    /\ Cardinality(InPool) < max_workers
    /\ chunks' = [chunks EXCEPT ![i].fut = "running"]
    /\ UNCHANGED <<temp_audio, MAX_PARALLEL_CHUNKS, media, p_pc, p_run, chunk_size, total_chunks,
                   chunk_index, gen_pc, completed, p_requests, answered, transcript,
                   returned, srt, metadata, cache_files>>
    /\ JobFrame

\* transcribe_audio, lines 461-486: getsize, the ffprobe check and the read of
\* the chunk file; a missing file or a failed check raises, and process_chunk
\* returns its error dict.
ChunkRead(i) ==
    /\ i \in DOMAIN chunks
    /\ chunks[i].fut = "running"
    /\ \E verify_ok \in BOOLEAN :
         IF chunks[i].file /\ verify_ok
         THEN /\ chunks' = [chunks EXCEPT ![i].fut = "requesting"]
              /\ completed' = completed
         ELSE /\ chunks' = [chunks EXCEPT ![i].fut = "done",
                                          ![i].outcome = "NonRetryableError"]
              /\ completed' = Append(completed, i)
    /\ UNCHANGED <<temp_audio, MAX_PARALLEL_CHUNKS, media, p_pc, p_run, chunk_size, total_chunks,
                   chunk_index, gen_pc, p_requests, answered, transcript,
                   returned, srt, metadata, cache_files>>
    /\ JobFrame

\* transcribe_audio, lines 488-541: the request and the handling of the
\* answer; process_chunk returns.
ChunkRespond(i) ==
    /\ i \in DOMAIN chunks
    /\ chunks[i].fut = "requesting"
    /\ \E response \in Responses :
         chunks' = [chunks EXCEPT ![i].fut = "done",
                                  ![i].response = response,
                                  ![i].outcome = transcribe_audio(response)]
    /\ p_requests' = [p_requests EXCEPT ![p_run] = @ + 1]
    /\ completed' = Append(completed, i)
    /\ UNCHANGED <<temp_audio, MAX_PARALLEL_CHUNKS, media, p_pc, p_run, chunk_size, total_chunks,
                   chunk_index, gen_pc, answered, transcript, returned, srt,
                   metadata, cache_files>>
    /\ JobFrame

\* process_parallel, lines 251-264: the results in the order of submission
Results == [i \in DOMAIN chunks |-> process_chunk(chunks[i], chunks[i].outcome)]

\* The rest of process_parallel, _process_audio and process_file, once the
\* generator has ended and every future is done: the results are collected and
\* merged, an empty transcript returns None, otherwise the subtitles are
\* formatted, written and cached. After a StreamingError the pool block still
\* waits for the futures, and process_file returns None.
Finish ==
    /\ p_pc = "parallel"
    /\ gen_pc \in {"exhausted", "failed"}
    /\ \A i \in DOMAIN chunks : chunks[i].fut = "done"
    /\ \E free_bytes \in {0, 2 * GiB} :
         LET merged == IF gen_pc = "failed" THEN <<>> ELSE Merge(Results)
             written == merged # <<>> /\ format_subtitles("list") = "subtitles"
             stored == written /\ PutDiskCheck(free_bytes) = "True"
             key == SubtitleKey(media.target_language)
             files1 == IF stored THEN [cache_files EXCEPT ![key] = 1] ELSE cache_files
         IN /\ transcript' = merged
            /\ srt' = IF written THEN [i \in DOMAIN merged |-> merged[i].start_time]
                      ELSE srt
            /\ returned' = IF written THEN "srt" ELSE "None"
            /\ cache_files' = files1
            /\ metadata' = IF stored THEN _update_metadata(metadata, files1, key)
                           ELSE metadata
    /\ answered' = [answered EXCEPT ![p_run] =
                       /\ gen_pc = "exhausted"
                       /\ \A i \in DOMAIN chunks : chunks[i].response \in Transcribed]
    /\ p_pc' = "done"
    /\ UNCHANGED <<temp_audio, MAX_PARALLEL_CHUNKS, media, p_run, chunk_size, total_chunks,
                   chunk_index, gen_pc, chunks, completed, p_requests>>
    /\ JobFrame

\* One call of process_file
JobNext ==
    \/ ProcessFile(1)
    \/ ExtractChunk
    \/ ResumeGenerator
    \/ \E i \in ChunkIndexes : ChunkStart(i) \/ ChunkRead(i) \/ ChunkRespond(i)
    \/ Finish

\* process_file called again on the same file with the same parameters
RerunNext ==
    \/ ProcessFile(MaxRuns)
    \/ ExtractChunk
    \/ ResumeGenerator
    \/ \E i \in ChunkIndexes : ChunkStart(i) \/ ChunkRead(i) \/ ChunkRespond(i)
    \/ Finish

(***************************************************************************)
(* segment_line and process_segments                                        *)
(***************************************************************************)

\* media_processororiginal.py, lines 74-77; times are counted in milliseconds
Millis == 1000
MAX_CHARS_PER_LINE == 37
MIN_DURATION == 1 * Millis
MAX_DURATION == 7 * Millis
CHARS_PER_SECOND == 20

\* A sentence has up to MaxWords words, a segment up to MaxSentences sentences.
MaxWords == 2
MaxSentences == 2

\* A word is modelled by its length: one that fits a line with others, one
\* that nearly fills a line, one several lines long.
WordLengths == {4, 30, 4 * MAX_CHARS_PER_LINE + 2}
\* text.split()
WordLists == UNION {[1..n -> WordLengths] : n \in 1..MaxWords}
\* What re.split(r'([.!?]+)') leaves after a sentence
Punctuations == {".", "?"}

RECURSIVE Sum(_)
Sum(seq) == IF seq = <<>> THEN 0 ELSE Head(seq) + Sum(Tail(seq))

\* len(' '.join(line)): a line is the list of the lengths of its words
LineLength(line) == Sum(line) + Len(line) - 1

\* segment_line, lines 119-126: a word that starts a line. Over the limit, its
\* first MAX_CHARS_PER_LINE - 1 characters and a hyphen make a line and the rest
\* starts the next line; otherwise the word starts the line.
SplitWord(word_length) ==
    IF word_length > MAX_CHARS_PER_LINE
    THEN LET split_point == MAX_CHARS_PER_LINE - 1
         IN [line |-> <<split_point + 1>>, rest |-> <<word_length - split_point>>]
    ELSE [line |-> <<>>, rest |-> <<word_length>>]

\* segment_line, lines 108-129: the loop over the words
RECURSIVE SegmentWords(_, _, _, _)
SegmentWords(words, lines, current_line, current_length) ==
    IF words = <<>>
    THEN IF current_line # <<>> THEN Append(lines, current_line) ELSE lines
    ELSE LET word_length == Head(words)
             space_length == IF current_line # <<>> THEN 1 ELSE 0
         IN IF current_length + word_length + space_length > MAX_CHARS_PER_LINE
            THEN IF current_line # <<>>
                 THEN SegmentWords(Tail(words), Append(lines, current_line),
                                   <<word_length>>, word_length)
                 ELSE LET split == SplitWord(word_length)
                      IN SegmentWords(Tail(words),
                                      IF split.line # <<>> THEN Append(lines, split.line)
                                      ELSE lines,
                                      split.rest, Sum(split.rest))
            ELSE SegmentWords(Tail(words), lines, Append(current_line, word_length),
                              current_length + word_length + space_length)

\* segment_line
segment_line(words) == IF words = <<>> THEN <<>> ELSE SegmentWords(words, <<>>, <<>>, 0)

\* sentence + punctuation: the punctuation follows the last word
FullSentence(words, punctuation) ==
    [words EXCEPT ![Len(words)] = @ + Len(punctuation)]

\* sum(len(line) for line in lines)
TotalChars(lines) == Sum([i \in DOMAIN lines |-> LineLength(lines[i])])

\* lines 173 and 199: min(max(total_chars / CHARS_PER_SECOND, MIN_DURATION), MAX_DURATION)
ClampedDuration(total_chars) ==
    LET optimal_duration == (total_chars * Millis) \div CHARS_PER_SECOND
    IN Min2(Max2(optimal_duration, MIN_DURATION), MAX_DURATION)

\* lines 175-179: 10% more for several lines, 20% more for ! or ?
Multiplied(duration, lines, punctuation) ==
    LET d1 == IF Len(lines) > 1 THEN (duration * 11) \div 10 ELSE duration
    IN IF punctuation \in {"!", "?"} THEN (d1 * 12) \div 10 ELSE d1

\* The duration as computed, whatever the segment end
Untruncated(time, duration, end_time) == duration

\* lines 181-183: if current_time + duration > end_time: duration = end_time - current_time
Truncated(time, duration, end_time) ==
    IF time + duration > end_time THEN end_time - time ELSE duration

\* The segments handed to process_segments: a transcription segment with its
\* start and end, or a plain string.
SegmentStarts == {0, 3 * Millis}
SegmentLengths == {Millis \div 2, 8 * Millis}
NoSegment == [kind |-> "None", start |-> 0, end |-> 0]
NoCue == [lines |-> <<>>, start |-> 0, end |-> 0, truncated |-> FALSE]

FormatInit ==
    /\ segment = NoSegment
    /\ sentence_no = 0
    /\ current_time = 0
    /\ cue = NoCue

FormatParked == FormatInit

FormatFrame == UNCHANGED <<semVars, batchVars, retryVars, cacheVars, jobVars, tmpVars, delayVars, diskVars, getVars, subVars>>

\* process_segments, lines 143-157: the loop reaches a dict segment with text
NextSegment ==
    /\ segment.kind = "None" \/ sentence_no >= 1
    /\ \E start \in SegmentStarts, length \in SegmentLengths :
         /\ segment' = [kind |-> "dict", start |-> start, end |-> start + length]
         /\ current_time' = start
    /\ sentence_no' = 0
    /\ cue' = NoCue
    /\ FormatFrame

\* process_segments, lines 158-188: one sentence of the segment becomes a cue
ProcessSentence ==
    /\ segment.kind = "dict"
    /\ sentence_no < MaxSentences
    /\ \E words \in WordLists, punctuation \in Punctuations :
         LET lines == segment_line(FullSentence(words, punctuation))
             computed == Multiplied(ClampedDuration(TotalChars(lines)), lines, punctuation)
             duration == Truncated(current_time, computed, segment.end)
         IN /\ cue' = [lines |-> lines, start |-> current_time,
                       end |-> current_time + duration,
                       truncated |-> duration # computed]
            /\ current_time' = current_time + duration
    /\ sentence_no' = sentence_no + 1
    /\ UNCHANGED segment
    /\ FormatFrame

\* process_segments, lines 192-205: a segment that is a plain string
ProcessString ==
    /\ segment.kind = "None" \/ sentence_no >= 1
    /\ \E words \in WordLists :
         LET lines == segment_line(words)
         IN cue' = [lines |-> lines, start |-> 0,
                    end |-> ClampedDuration(TotalChars(lines)),
                    truncated |-> FALSE]
    /\ segment' = [kind |-> "str", start |-> 0, end |-> 0]
    /\ sentence_no' = 1
    /\ UNCHANGED current_time
    /\ FormatFrame

FormatNext ==
    \/ NextSegment
    \/ ProcessSentence
    \/ ProcessString

(***************************************************************************)
(* Temporary files of concurrent process_file executions                    *)
(***************************************************************************)

\* Executions of process_file that run at the same time in the pool of one
\* worker (up to batch_size of them hold a permit together).
NumTempJobs == 2
TempJobs == 1..NumTempJobs

\* The media files handed to the worker: directory, base name, extension
InputFiles == [dir : {"d1", "d2"}, stem : {"a", "b"}, ext : {"mp4", "mkv"}]

NoPath == [dir |-> <<>>, name |-> "", ext |-> ""]

\* extract_audio, lines 130-137, with start_time None:
\* <dirname(input_file)>/.temp/<splitext(basename(input_file))[0]>.wav
output_file(input_file) ==
    [dir |-> <<input_file.dir, ".temp">>, name |-> input_file.stem, ext |-> "wav"]

\* The names tempfile can give out
TempNames == {"tmp1", "tmp2", "tmp3"}
\* tempfile.NamedTemporaryFile(suffix='.wav', delete=False): a file in the
\* system's temporary directory
chunk_path(name) == [dir |-> <<"tmp">>, name |-> name, ext |-> "wav"]

\* The temporary files being written
Writing == {t_path[j] : j \in TempJobs} \ {NoPath}

\* run(), lines 565-568: the files are submitted, each to its own execution
TempInit ==
    /\ t_file \in {f \in [TempJobs -> InputFiles] :
                      \A j, k \in TempJobs : j # k => f[j] # f[k]}
    /\ t_pc = [j \in TempJobs |-> "start"]
    /\ t_path = [j \in TempJobs |-> NoPath]

TempParked ==
    /\ t_file = [j \in TempJobs |-> [dir |-> "d1", stem |-> "a", ext |-> "mp4"]]
    /\ t_pc = [j \in TempJobs |-> "start"]
    /\ t_path = [j \in TempJobs |-> NoPath]

TempFrame == UNCHANGED <<semVars, batchVars, retryVars, cacheVars, jobVars, fmtVars, delayVars, diskVars, getVars, subVars>>

\* extract_audio, lines 130-159: ffmpeg starts writing output_file (-y
\* overwrites a file that is there)
ExtractBegin(j) ==
    /\ t_pc[j] = "start"
    /\ t_pc' = [t_pc EXCEPT ![j] = "extracting"]
    /\ t_path' = [t_path EXCEPT ![j] = output_file(t_file[j])]
    /\ UNCHANGED t_file
    /\ TempFrame

\* extract_audio, lines 159-187: ffmpeg ends; the method returns or raises
ExtractEnd(j) ==
    /\ t_pc[j] = "extracting"
    /\ \E ok \in BOOLEAN :
         t_pc' = [t_pc EXCEPT ![j] = IF ok THEN "streaming" ELSE "done"]
    /\ t_path' = [t_path EXCEPT ![j] = NoPath]
    /\ UNCHANGED t_file
    /\ TempFrame

\* stream_chunks, lines 177-190: a new temporary file, whose name no existing
\* file has, and ffmpeg writes the chunk into it
ChunkBegin(j) ==
    /\ t_pc[j] = "streaming"
    /\ \E name \in TempNames :
         /\ chunk_path(name) \notin Writing
         /\ t_path' = [t_path EXCEPT ![j] = chunk_path(name)]
    /\ t_pc' = [t_pc EXCEPT ![j] = "chunk"]
    /\ UNCHANGED t_file
    /\ TempFrame

\* stream_chunks, lines 186-214: the chunk is written (or the extraction
\* failed); the loop goes on or ends
ChunkEnd(j) ==
    /\ t_pc[j] = "chunk"
    /\ \E last \in BOOLEAN :
         t_pc' = [t_pc EXCEPT ![j] = IF last THEN "done" ELSE "streaming"]
    /\ t_path' = [t_path EXCEPT ![j] = NoPath]
    /\ UNCHANGED t_file
    /\ TempFrame

TempNext ==
    \E j \in TempJobs :
        \/ ExtractBegin(j)
        \/ ExtractEnd(j)
        \/ ChunkBegin(j)
        \/ ChunkEnd(j)

(***************************************************************************)
(* calculate_retry_delay (modules/network_utils.py)                         *)
(***************************************************************************)

\* constants.py: RETRY_DELAY = 1.0 seconds, in ms
RETRY_DELAY == 1000

\* constants.py: MAX_RETRY_DELAY = 32.0 seconds, in ms
MAX_RETRY_DELAY == 32000

\* constants.py: JITTER_RANGE = 0.1, in percent
JITTER_RANGE == 10

\* The base_delay arguments tried: the default, and bases that reach
\* MAX_RETRY_DELAY within MAX_RETRIES attempts or start above it.
BaseDelays == {RETRY_DELAY, 10 * RETRY_DELAY, 16 * RETRY_DELAY, 40 * RETRY_DELAY}

\* random.uniform(-jitter, jitter): both ends and the middle, as a
\* percentage of jitter
JitterDraws == {0 - 100, 0, 100}

\* line 68 without the min
BackoffUncapped(att, base) == base * (2 ^ att)

\* line 68: delay = min(base_delay * (2 ** attempt), MAX_RETRY_DELAY)
Backoff(att, base) == Min2(base * (2 ^ att), MAX_RETRY_DELAY)

\* lines 68-74, with the draw of random.uniform given
calculate_retry_delay(att, base, draw) ==
    LET delay  == Backoff(att, base)
        jitter == (delay * JITTER_RANGE) \div 100
    IN  Max2(0, delay + (jitter * draw) \div 100)

DelayInit ==
    /\ base_delay \in BaseDelays
    /\ d_attempt = 0
    /\ delays = <<>>

DelayParked ==
    /\ base_delay = RETRY_DELAY
    /\ d_attempt = 0
    /\ delays = <<>>

DelayFrame == UNCHANGED <<semVars, batchVars, retryVars, cacheVars, jobVars, fmtVars, tmpVars, diskVars, getVars, subVars>>

\* The except clause of a retry loop (request, line 146; with_retry, line
\* 223) computes the delay of attempt 0, 1, ..., retry_count - 1.
ComputeDelay ==
    /\ d_attempt < retry_count
    /\ \E draw \in JitterDraws :
         delays' = Append(delays, [backoff |-> Backoff(d_attempt, base_delay),
                                   delay   |-> calculate_retry_delay(d_attempt, base_delay, draw)])
    /\ d_attempt' = NextAttempt(d_attempt)
    /\ UNCHANGED base_delay
    /\ DelayFrame

DelayNext == ComputeDelay

(***************************************************************************)
(* Cache.get beside the cleanup thread (modules/cache_utils.py)             *)
(***************************************************************************)

GetInit ==
    /\ g_pc = "idle"
    /\ g_key = <<>>
    /\ g_size = 0
    /\ g_result = "none"

GetParked == GetInit

GetFrame ==
    UNCHANGED <<semVars, batchVars, retryVars, jobVars, fmtVars, tmpVars, delayVars, diskVars, subVars,
                cache_files, now, c_pc, total_size, pass_start, last_call, last_get>>

\* _update_metadata, lines 96-101: the assignment self.metadata[cache_key] = {...}
\* once the dict, with the size read before, has been built
StoreEntry(md, key, size) ==
    [k \in DOMAIN md \cup {key} |->
        IF k = key THEN [last_access |-> now, size |-> size] ELSE md[k]]

\* get, lines 182-190: the key, and the test
\* `cache_key in self.metadata and cache_path.exists()`; a miss returns None
GetCheck ==
    /\ g_pc = "idle"
    /\ \E call \in CacheCalls :
         LET key == _get_cache_key(call[1], call[2])
         IN /\ g_key' = key
            /\ IF CacheHit(key)
               THEN g_pc' = "checked" /\ g_result' = "none"
               ELSE g_pc' = "idle" /\ g_result' = "None"
    /\ UNCHANGED <<g_size, metadata>>
    /\ GetFrame

\* _update_metadata, line 100: os.path.getsize(cache_path); on a file that is
\* gone it raises, get's except clause logs and returns None
GetStat ==
    /\ g_pc = "checked"
    /\ IF cache_files[g_key] # 0
       THEN g_size' = GetSize(cache_files[g_key]) /\ g_pc' = "sized" /\ g_result' = g_result
       ELSE g_size' = 0 /\ g_pc' = "idle" /\ g_result' = "None"
    /\ UNCHANGED <<g_key, metadata>>
    /\ GetFrame

\* _update_metadata, lines 96 and 102: the entry is stored and saved
GetStore ==
    /\ g_pc = "sized"
    /\ metadata' = StoreEntry(metadata, g_key, g_size)
    /\ g_pc' = "stored"
    /\ UNCHANGED <<g_key, g_size, g_result>>
    /\ GetFrame

\* get, line 188: return str(cache_path)
GetReturn ==
    /\ g_pc = "stored"
    /\ g_result' = "cache_path"
    /\ g_pc' = "idle"
    /\ UNCHANGED <<g_key, g_size, metadata>>
    /\ GetFrame

GetRaceNext ==
    \/ GetCheck
    \/ GetStat
    \/ GetStore
    \/ GetReturn
    \/ Invalidate
    \/ CleanupBegin(FALSE)
    \/ CleanupLoop

(***************************************************************************)
(* TextFormatter.format_subtitle and _balance_lines (modules/language_utils.py) *)
(***************************************************************************)

\* constants.py, SUBTITLE_RULES['en']
max_chars_per_line == 42
min_chars_per_line == 20
\* format_subtitle's default line_count
line_count == 2

\* The texts tried: up to MaxTextWords words, separated by single spaces.
MaxTextWords == 4
TextWordLengths == {5, 12, 25}
Texts == UNION {[1..n -> TextWordLengths] : n \in 1..MaxTextWords}

\* re.findall(r'\S+|\s+', text): the words and the spaces between them; a
\* space is written 0
Tokens(text) ==
    [i \in 1..(2 * Len(text) - 1) |-> IF i % 2 = 1 THEN text[(i + 1) \div 2] ELSE 0]
TokenLength(t) == IF t = 0 THEN 1 ELSE t

\* ''.join(current_line).strip(), as the words of the line
JoinStrip(tokens) == SelectSeq(tokens, LAMBDA t : t # 0)

\* len() of a line
StrLen(words) == IF words = <<>> THEN 0 ELSE Sum(words) + Len(words) - 1

\* format_subtitle, lines 136-152: the loop over the tokens from token i on,
\* and the statement after it
RECURSIVE FillLines(_, _, _, _, _)
FillLines(tokens, i, lines, current_line, current_length) ==
    IF i > Len(tokens)
    THEN IF current_line # <<>> /\ Len(lines) < line_count
         THEN Append(lines, JoinStrip(current_line)) ELSE lines
    ELSE LET word == tokens[i]
             word_length == TokenLength(word)
         IN IF current_length + word_length > max_chars_per_line /\ current_line # <<>>
            THEN LET lines1 == Append(lines, JoinStrip(current_line))
                 IN IF Len(lines1) >= line_count
                    THEN lines1
                    ELSE FillLines(tokens, i + 1, lines1, <<word>>, word_length)
            ELSE FillLines(tokens, i + 1, lines, Append(current_line, word),
                           current_length + word_length)

\* _balance_lines, lines 168-169: max(lines, key=len) and its index
MaxIndex(lines) ==
    CHOOSE i \in DOMAIN lines :
        /\ \A j \in DOMAIN lines : StrLen(lines[j]) <= StrLen(lines[i])
        /\ \A j \in DOMAIN lines : j < i => StrLen(lines[j]) < StrLen(lines[i])

Abs(x) == IF x < 0 THEN 0 - x ELSE x

\* _balance_lines, lines 181-185: current_pos after word i, and its distance
\* from mid_point
SplitDiff(words, i) ==
    Abs(Sum(SubSeq(words, 1, i)) + i - (StrLen(words) \div 2))

\* _balance_lines, lines 178-189: the first i with the least distance
BestSplit(words) ==
    IF words = <<>> THEN 0
    ELSE CHOOSE i \in DOMAIN words :
           /\ \A j \in DOMAIN words : SplitDiff(words, i) <= SplitDiff(words, j)
           /\ \A j \in DOMAIN words : j < i => SplitDiff(words, j) > SplitDiff(words, i)

\* _balance_lines, lines 191-201: the two parts overwrite the longest line and
\* the line before it (or, for the first line, after it)
SplitLongest(lines) ==
    LET max_index   == MaxIndex(lines)
        words       == lines[max_index]
        best_split  == BestSplit(words)
        first_part  == SubSeq(words, 1, best_split)
        second_part == SubSeq(words, best_split + 1, Len(words))
    IN IF max_index > 1
       THEN [lines EXCEPT ![max_index - 1] = first_part, ![max_index] = second_part]
       ELSE [lines EXCEPT ![max_index] = first_part, ![max_index + 1] = second_part]

SubInit ==
    /\ sub_text \in Texts
    /\ sub_lines = <<>>
    /\ sub_pc = "start"

SubParked ==
    /\ sub_text = <<5>>
    /\ sub_lines = <<>>
    /\ sub_pc = "start"

SubFrame ==
    UNCHANGED <<semVars, batchVars, retryVars, cacheVars, jobVars, fmtVars, tmpVars,
                delayVars, diskVars, getVars>>

\* format_subtitle, lines 127-159, up to the call of _balance_lines
FormatSubtitle ==
    /\ sub_pc = "start"
    /\ sub_lines' = FillLines(Tokens(sub_text), 1, <<>>, <<>>, 0)
    /\ sub_pc' = IF Len(sub_lines') > 1 THEN "balancing" ELSE "returned"
    /\ UNCHANGED sub_text
    /\ SubFrame

\* _balance_lines, lines 167-201: one test of `while len(lines) > 1` and one
\* pass through the body
BalanceLines ==
    /\ sub_pc = "balancing"
    /\ IF Len(sub_lines) > 1
          /\ StrLen(sub_lines[MaxIndex(sub_lines)]) > min_chars_per_line
       THEN /\ sub_lines' = SplitLongest(sub_lines)
            /\ sub_pc' = "balancing"
       ELSE /\ sub_pc' = "returned"
            /\ UNCHANGED sub_lines
    /\ UNCHANGED sub_text
    /\ SubFrame

SubNext ==
    \/ FormatSubtitle
    \/ BalanceLines

(***************************************************************************)
(* Specifications                                                           *)
(***************************************************************************)

\* The state of a component nobody uses.
BatchParked ==
    /\ max_concurrent = 1
    /\ tasks = <<>>
    /\ task_order = <<>>
    /\ active_tasks = {}
    /\ is_processing = FALSE
    /\ signals = <<>>

\* A cache directory whose files can all be deleted
DiskParked == undeletable = {}

\* Any of the cache files may be undeletable (read-only, or held open).
DiskInit == undeletable \in SUBSET CacheKeys

CacheParked ==
    /\ metadata = <<>>
    /\ cache_files = [k \in CacheKeys |-> 0]
    /\ now = MaxInitTick * ClockTick
    /\ c_pc = "idle"
    /\ total_size = 0
    /\ pass_start = NoPass
    /\ last_call = NoPut
    /\ last_get = NoGet

InitSem == SemInit /\ BatchParked /\ RetryInit /\ CacheParked /\ JobParked /\ FormatParked /\ TempParked /\ DelayParked /\ DiskParked /\ GetParked /\ SubParked

InitBatch == SemInit /\ BatchInit /\ RetryInit /\ CacheParked /\ JobParked /\ FormatParked /\ TempParked /\ DelayParked /\ DiskParked /\ GetParked /\ SubParked

InitRetry == SemInit /\ BatchParked /\ RetryInit /\ CacheParked /\ JobParked /\ FormatParked /\ TempParked /\ DelayParked /\ DiskParked /\ GetParked /\ SubParked

InitCache == SemInit /\ BatchParked /\ RetryInit /\ CacheInit /\ JobParked /\ FormatParked /\ TempParked /\ DelayParked /\ DiskParked /\ GetParked /\ SubParked

InitFormat == SemInit /\ BatchParked /\ RetryInit /\ CacheParked /\ JobParked /\ FormatInit /\ TempParked /\ DelayParked /\ DiskParked /\ GetParked /\ SubParked

InitTemp == SemInit /\ BatchParked /\ RetryInit /\ CacheParked /\ JobParked /\ FormatParked /\ TempInit /\ DelayParked /\ DiskParked /\ GetParked /\ SubParked

InitDelay == SemInit /\ BatchParked /\ RetryInit /\ CacheParked /\ JobParked /\ FormatParked /\ TempParked /\ DelayInit /\ DiskParked /\ GetParked /\ SubParked

InitEvictRun == SemInit /\ BatchParked /\ RetryInit /\ CacheInit /\ JobParked /\ FormatParked /\ TempParked /\ DelayParked /\ DiskInit /\ GetParked /\ SubParked

InitGetRace == SemInit /\ BatchParked /\ RetryInit /\ CacheInit /\ JobParked /\ FormatParked /\ TempParked /\ DelayParked /\ DiskParked /\ GetInit /\ SubParked

InitSub == SemInit /\ BatchParked /\ RetryInit /\ CacheParked /\ JobParked /\ FormatParked /\ TempParked /\ DelayParked /\ DiskParked /\ GetParked /\ SubInit

InitJob == SemInit /\ BatchParked /\ RetryInit /\ JobCacheInit /\ JobInit /\ FormatParked /\ TempParked /\ DelayParked /\ DiskParked /\ GetParked /\ SubParked

SpecSem ==
    /\ InitSem
    /\ [][SemNext]_vars

SpecAdmit ==
    /\ InitSem
    /\ [][AdmitNext]_vars

SpecBatch ==
    /\ InitBatch
    /\ [][BatchNext]_vars

SpecProgress ==
    /\ InitBatch
    /\ [][ProgressNext]_vars

SpecFormat ==
    /\ InitFormat
    /\ [][FormatNext]_vars

SpecDelay ==
    InitDelay /\ [][DelayNext]_vars

SpecTemp ==
    /\ InitTemp
    /\ [][TempNext]_vars

SpecBatchRun ==
    /\ InitBatch
    /\ [][BatchRunNext]_vars
    /\ WF_vars(TaskReports)

SpecRetry ==
    /\ InitRetry
    /\ [][RetryNext]_vars

\* The worker whose api_session issues the requests (subtitle_worker.py, line 57)
RequestWorker == CHOOSE w \in Workers : TRUE

\* A request with its retries, while the worker that issued it can be stopped.
CancelNext ==
    \/ RetryNext
    \/ Stop(RequestWorker)

SpecCancel ==
    /\ InitRetry
    /\ [][CancelNext]_vars

SpecJob ==
    /\ InitJob
    /\ [][JobNext]_vars

SpecRerun ==
    /\ InitJob
    /\ [][RerunNext]_vars

SpecCache ==
    /\ InitCache
    /\ [][CacheNext]_vars

\* The eviction pass on a cache directory with undeletable files. The cleanup
\* thread is a daemon thread that nothing stops: once inside
\* _cleanup_old_entries it keeps executing the loop.
SpecEvictRun ==
    InitEvictRun /\ [][EvictNext]_vars /\ WF_vars(CleanupLoop)

\* A thread inside Cache.get while the cleanup thread and other callers run:
\* Cache takes no lock after __new__.
SpecGetRace ==
    InitGetRace /\ [][GetRaceNext]_vars

\* One call of format_subtitle: sequential code, which keeps running.
SpecSub ==
    InitSub /\ [][SubNext]_vars /\ WF_vars(SubNext)

SpecEvict ==
    /\ InitCache
    /\ [][EvictNext]_vars

(***************************************************************************)
(* Properties                                                               *)
(***************************************************************************)

\* C1: at every moment at most MAX_CONCURRENT_TASKS process_file executions,
\* counted over all workers sharing the semaphore, hold a permit.
C1_PermitHoldersBounded == Cardinality(Holders) <= MAX_CONCURRENT_TASKS

\* BatchManager.completed_jobs / failed_jobs
completed_jobs == Cardinality({f \in DOMAIN tasks : tasks[f].status = "COMPLETED"})
failed_jobs    == Cardinality({f \in DOMAIN tasks : tasks[f].status = "FAILED"})

Emitted(name) == \E i \in DOMAIN signals : signals[i][1] = name
AllTerminal == \A f \in DOMAIN tasks : tasks[f].status \in Terminal

\* C2: batch_completed is emitted only when every tracked task has reached a
\* terminal state, never while a task is still PENDING or PROCESSING.
C2_BatchCompletedWhenAllTerminal == Emitted("batch_completed") => AllTerminal

\* C3: after process_files on n valid files, once every started task has reported
\* there is nothing left to start: all n tasks are terminal, is_processing is
\* false and completed_jobs + failed_jobs = n.
C3_BatchRunsAllTasks ==
    (DOMAIN tasks # {} /\ active_tasks = {}) =>
        /\ AllTerminal
        /\ ~is_processing
        /\ completed_jobs + failed_jobs = Cardinality(DOMAIN tasks)

\* C4: a task whose status is COMPLETED, FAILED or CANCELLED keeps that status
\* (and stays tracked) through every BatchManager operation and callback.
C4_TerminalStatesFinal ==
    [][\A f \in DOMAIN tasks :
          tasks[f].status \in Terminal =>
              (f \in DOMAIN tasks' /\ tasks'[f].status = tasks[f].status)]_vars

\* C4 witness: one task was cancelled, another completed or failed, and
\* process_files has run again since (nothing is active, yet is_processing is set).
C4_Witness ==
    /\ \E f \in DOMAIN tasks : tasks[f].status = "CANCELLED"
    /\ \E f \in DOMAIN tasks : tasks[f].status \in {"COMPLETED", "FAILED"}
    /\ is_processing /\ active_tasks = {}

\* The retryable errors as the contract lists them: connection and timeout
\* errors, an HTTP status of the retry set, and RetryableError.
RetryableByContract ==
    { Err("ConnectionError", 0), Err("Timeout", 0), Err("HTTPError", 503),
      Err("RetryableError", 0) }
FailedRetryably(i) == outcomes[i] \in RetryableByContract

\* C5: when the first k attempts fail retryably (k <= MAX_RETRIES) the call is
\* still going, and when attempt k+1 then succeeds it returns after exactly k+1
\* requests and k sleeps.
C5_RetryThenSucceed ==
    LET n == Len(outcomes)
    IN /\ (n <= MAX_RETRIES /\ \A i \in 1..n : FailedRetryably(i)) =>
              (r_pc \in {"idle", "try", "sleeping"} /\ requests = n
               /\ sleeps = IF r_pc = "sleeping" THEN n - 1 ELSE n)
       /\ (n >= 1 /\ n - 1 <= MAX_RETRIES /\ outcomes[n] = OK
           /\ \A i \in 1..(n - 1) : FailedRetryably(i)) =>
              (r_pc = "returned" /\ requests = n /\ sleeps = n - 1
               /\ raised = NotRaised)

\* C5 witness: two retryable failures, then success: 3 requests and 2 sleeps.
C5_Witness ==
    /\ Len(outcomes) = 3 /\ outcomes[3] = OK
    /\ FailedRetryably(1) /\ FailedRetryably(2)
    /\ r_pc = "returned" /\ requests = 3 /\ sleeps = 2

\* C6: one call makes at most MAX_RETRIES + 1 attempts; when every attempt
\* fails retryably it makes exactly MAX_RETRIES + 1 and then raises.
C6_AttemptCeiling ==
    /\ requests <= MAX_RETRIES + 1
    /\ requests = Len(outcomes)
    /\ (\A i \in 1..Len(outcomes) : FailedRetryably(i)) =>
          (r_pc = "raised" <=> Len(outcomes) = MAX_RETRIES + 1)

\* C6 witness: MAX_RETRIES + 1 retryable failures and the call has raised.
C6_Witness ==
    /\ Len(outcomes) = MAX_RETRIES + 1
    /\ \A i \in 1..Len(outcomes) : FailedRetryably(i)
    /\ r_pc = "raised" /\ requests = MAX_RETRIES + 1 /\ sleeps = MAX_RETRIES

\* C7: an attempt that fails with a non-retryable error ends the call at once:
\* it raises with no sleep and no attempt after it, whatever budget remains.
C7_NonRetryableAborts ==
    LET n == Len(outcomes)
    IN (n >= 1 /\ outcomes[n] # OK /\ outcomes[n] \notin RetryableByContract) =>
          (r_pc = "raised" /\ requests = n /\ sleeps = n - 1)

\* C7 witness: a non-retryable failure on the second attempt, budget remaining.
C7_Witness ==
    /\ Len(outcomes) = 2 /\ FailedRetryably(1)
    /\ outcomes[2] = Err("HTTPError", 404)
    /\ r_pc = "raised" /\ sleeps = 1

\* C8: once the retry budget is exhausted the caller gets a NonRetryableError
\* wrapping the last failure, for request and with_retry alike.
C8_ExhaustedRaisesNonRetryable ==
    LET n == Len(outcomes)
    IN (r_pc = "raised" /\ n = MAX_RETRIES + 1 /\ FailedRetryably(n)) =>
          (raised.cls = "NonRetryableError" /\ raised.cause = outcomes[n])

\* C9: a get that follows put(file_path, data_path, params) returns a path to a
\* file with the content of data_path; a get that follows invalidate returns None.
C9_CacheRoundTrip ==
    (last_get.key # <<>> /\ last_get.key = last_call.key) =>
        /\ last_call.op = "put" =>
              (last_get.path # "None" /\ last_get.content = last_call.data)
        /\ last_call.op = "invalidate" => last_get.path = "None"

\* The eviction pass that started from pass_start has returned.
PassDone == c_pc = "idle" /\ pass_start.observed
Removed == DOMAIN pass_start.metadata \ DOMAIN metadata
\* The entries removed are the oldest ones, and the last one was still needed.
OldestNeeded ==
    LET m0 == pass_start.metadata
    IN /\ TotalSize(metadata) <= CACHE_MAX_SIZE
       /\ \A r \in Removed, k \in DOMAIN metadata :
              m0[r].last_access <= m0[k].last_access
       /\ Removed # {} =>
              \E r \in Removed :
                  /\ \A q \in Removed : m0[q].last_access <= m0[r].last_access
                  /\ TotalSize(metadata) + m0[r].size > CACHE_MAX_SIZE

\* C10 as stated: for any N entries whose sizes sum to more than CACHE_MAX_SIZE,
\* after one pass the total is at most the maximum and the removed entries are
\* exactly the oldest-by-last-access ones needed.
C10_EvictionExact ==
    (PassDone /\ TotalSize(pass_start.metadata) > CACHE_MAX_SIZE) => OldestNeeded

\* No entry of the pass's start is expired or has lost its file.
AllLive ==
    \A k \in DOMAIN pass_start.metadata :
        pass_start.files[k] # 0 /\ ~Expired(pass_start.metadata[k])

\* C10 amended: the same, for entries none of which is older than CACHE_MAX_AGE
\* or has lost its file (those are removed whatever the sizes).
C10_EvictionExactLive ==
    (PassDone /\ TotalSize(pass_start.metadata) > CACHE_MAX_SIZE /\ AllLive) =>
        OldestNeeded

\* C10 witness: a pass over live entries above the maximum has evicted some
\* entries and kept others.
C10_Witness ==
    /\ PassDone /\ AllLive
    /\ TotalSize(pass_start.metadata) > CACHE_MAX_SIZE
    /\ Removed # {} /\ DOMAIN metadata # {}

\* C11: the eviction pass and the operations get, put, invalidate and clear
\* exclude one another: while a pass is between two of its steps, the only
\* step that touches the cache is the next step of that pass.
C11_CacheSingleWriter ==
    [][c_pc = "loop" =>
          (CleanupLoop \/ UNCHANGED <<metadata, cache_files, last_call, last_get>>)]_vars

\* C18: every permit acquired by a process_file execution is released exactly
\* once, and none is released that was not acquired: the free permits and the
\* permits held always add up to MAX_CONCURRENT_TASKS.
C18_PermitReleasedOnce == sem + Cardinality(Holders) = MAX_CONCURRENT_TASKS

\* C20: once the worker has been asked to stop, a call that is inside a retry
\* backoff sleep gives up the sleep and issues no further attempt.
C20_SleepCancellable ==
    [][(stop_flag[RequestWorker] /\ r_pc = "sleeping") =>
          (r_pc' # "try" /\ requests' = requests)]_vars

\* C19: a poll whose memory sample exceeds MAX_MEMORY_PERCENT never admits the
\* job, and it does not end the job either: a waiting job leaves the wait only
\* by acquiring a permit on a poll without a high sample, or because its worker
\* was stopped.
C19_MemoryBackpressure ==
    [][\A w \in Workers, j \in Jobs :
          (jpc[w][j] = "waiting" /\ jpc'[w][j] # "waiting") =>
              \/ /\ jpc'[w][j] = "holding"
                 /\ sem' = sem - 1
                 /\ poll'.w = w /\ poll'.j = j
                 /\ ~(poll'.sampled /\ poll'.percent > MAX_MEMORY_PERCENT)
              \/ /\ jpc'[w][j] = "done"
                 /\ stop_flag[w]
                 /\ sem' = sem]_vars

\* C19 witness: the last poll sampled memory above the limit while a permit
\* was free, and the job is still waiting.
C19_Witness ==
    /\ poll.sampled /\ poll.percent > MAX_MEMORY_PERCENT
    /\ sem > 0
    /\ jpc[poll.w][poll.j] = "waiting"

\* Tick t of the file lies in the interval of a yielded chunk.
Covered(t) ==
    \E i \in DOMAIN chunks :
        chunks[i].start_time <= t /\ t < chunks[i].start_time + chunks[i].duration

\* C12: once stream_chunks has yielded all its chunks, their intervals
\* [start_time, start_time + duration) cover [0, duration) without a gap.
C12_ChunkCoverage ==
    gen_pc = "exhausted" =>
        \A t \in 0..(Ticks(media.duration) - 1) : Covered(t)

\* C12 witness: a complete plan of several chunks, the last one starting
\* inside the file.
C12_Witness ==
    /\ gen_pc = "exhausted"
    /\ Len(chunks) >= 2
    /\ chunks[Len(chunks)].start_time > 0
    /\ chunks[Len(chunks)].start_time < chunks[1].duration

\* C13: a file whose duration is within one chunk's bounds (MAX_CHUNK_DURATION
\* and the size bound) is planned as exactly one chunk, which spans the file.
C13_ShortFileOneChunk ==
    (gen_pc # "none"
     /\ media.duration <= MAX_CHUNK_DURATION
     /\ Ticks(media.duration) <= SizeBased(media.file_size)) =>
        /\ total_chunks = 1
        /\ gen_pc = "exhausted" =>
              (/\ Len(chunks) = 1
               /\ chunks[1].start_time = 0
               /\ chunks[1].duration = Ticks(media.duration))

\* C14: the file of a chunk is removed only after process_func has returned
\* for that chunk.
C14_ChunkFileOutlivesTranscription ==
    \A i \in DOMAIN chunks : ~chunks[i].file => chunks[i].fut = "done"

TranscribedChunks == {i \in DOMAIN chunks : chunks[i].response \in Transcribed}

\* C16: a job of which at least one chunk was transcribed ends with a subtitle
\* file covering exactly the transcribed chunks; a job of which none was
\* ends with None and writes no subtitle file.
C16_PartialSuccess ==
    (p_pc = "done" /\ gen_pc = "exhausted") =>
        IF TranscribedChunks # {}
        THEN /\ returned = "srt"
             /\ Range(srt) = {chunks[i].start_time : i \in TranscribedChunks}
        ELSE returned = "None" /\ srt = <<>>

\* C17: when the first call on the file had every request answered with a
\* transcription, the second call with the same parameters is served from the
\* cache: it issues no transcription request.
C17_CacheHitAvoidsNetwork ==
    (p_run = 2 /\ answered[1]) => p_requests[2] = 0

\* BatchManager.pending_jobs
pending_jobs == Cardinality({f \in DOMAIN tasks : tasks[f].status = "PENDING"})

\* The batch is cancelled and process_files has not been called since.
Stopped == ~is_processing /\ active_tasks = {}

\* C21: stop_processing leaves is_processing false and no active job, and
\* from then on, until process_files is called, every operation and every late
\* completion or failure report leaves each tracked task as it is, starts no
\* PENDING task and keeps the batch stopped.
C21_CancelledBatchStaysStopped ==
    [][/\ StopProcessing => Stopped'
       /\ Stopped =>
            \/ /\ Stopped'
               /\ \A f \in DOMAIN tasks : f \in DOMAIN tasks' /\ tasks'[f] = tasks[f]
            \/ ProcessFiles]_vars

\* C21 witness: a cancelled batch with a CANCELLED and a PENDING task, after a
\* further operation that emitted nothing (a late report, add_files or a
\* second stop_processing).
C21_Witness ==
    /\ Stopped
    /\ \E f \in DOMAIN tasks : tasks[f].status = "CANCELLED"
    /\ \E f \in DOMAIN tasks : tasks[f].status = "PENDING"
    /\ signals = <<>>

\* Sibling g of a failed task is not touched: it keeps its error, progress and
\* result, and its status, unless the scheduler starts it.
SiblingUntouched(g) ==
    /\ g \in DOMAIN tasks'
    /\ tasks'[g].error = tasks[g].error
    /\ tasks'[g].progress = tasks[g].progress
    /\ tasks'[g].result = tasks[g].result
    /\ \/ tasks'[g].status = tasks[g].status
       \/ tasks[g].status = "PENDING" /\ tasks'[g].status = "PROCESSING"

\* C22: a failure report for an active task fails that task only: no other
\* task is failed, cancelled or otherwise changed by it, and the scheduler is
\* not aborted, that is, it stays in processing while a task is still PENDING.
C22_FailureIsolated ==
    [][\A file \in active_tasks :
          Becomes(_on_task_failed(Manager, file, "error")) =>
              /\ \A g \in DOMAIN tasks \ {file} : SiblingUntouched(g)
              /\ (is_processing /\ pending_jobs > 0) => is_processing']_vars

\* The siblings alone.
C22_SiblingsUntouched ==
    [][\A file \in active_tasks :
          Becomes(_on_task_failed(Manager, file, "error")) =>
              \A g \in DOMAIN tasks \ {file} : SiblingUntouched(g)]_vars

\* The tasks whose status is PROCESSING
ProcessingTasks == {f \in DOMAIN tasks : tasks[f].status = "PROCESSING"}

\* C23: at all times at most max_concurrent tasks have the status PROCESSING,
\* whatever add_files, process_files, the callbacks and stop_processing did.
C23_ProcessingBounded == Cardinality(ProcessingTasks) <= max_concurrent

\* C23 witness: the bound is what holds a task back: max_concurrent tasks are
\* PROCESSING and another one is PENDING.
C23_Witness ==
    /\ Cardinality(ProcessingTasks) = max_concurrent
    /\ pending_jobs > 0
    /\ is_processing

\* C24: the progress of a task lies in 0..100 and no step lowers it: neither
\* update_progress nor any operation of the manager.
C24_ProgressMonotone ==
    [][\A f \in DOMAIN tasks :
          f \in DOMAIN tasks' =>
              /\ tasks'[f].progress \in 0..100
              /\ tasks'[f].progress >= tasks[f].progress]_vars

\* The range alone.
C24_ProgressInRange == \A f \in DOMAIN tasks : tasks[f].progress \in 0..100

\* C25: every line segment_line produces has at most MAX_CHARS_PER_LINE
\* characters, wherever an over-long word stands and however long it is.
C25_LinesWithinLimit ==
    \A i \in DOMAIN cue.lines : LineLength(cue.lines[i]) <= MAX_CHARS_PER_LINE

\* C26: every cue process_segments produces lasts at least MIN_DURATION and at
\* most MAX_DURATION, after the multipliers and the truncation as well.
C26_CueDurationBounded ==
    cue # NoCue =>
        /\ cue.end - cue.start >= MIN_DURATION
        /\ cue.end - cue.start <= MAX_DURATION

\* C27: no cue made from a segment ends after the segment ends, and a cue whose
\* computed duration would overrun ends exactly at the segment end.
C27_CueWithinSegment ==
    (cue # NoCue /\ segment.kind = "dict") =>
        /\ cue.end <= segment.end
        /\ cue.truncated => cue.end = segment.end

\* C27 witness: the second sentence of a segment was truncated to the segment
\* end, after a first cue that had used part of the segment.
C27_Witness ==
    /\ segment.kind = "dict"
    /\ sentence_no = 2
    /\ cue.truncated
    /\ cue.start > segment.start
    /\ cue.end = segment.end

\* The temporary files of the job that are on disk
ChunkFiles == {i \in DOMAIN chunks : chunks[i].file}

\* C28: once process_file has returned, by whatever path, no temporary file of
\* the job is left: no chunk file of stream_chunks and no audio file of
\* extract_audio.
C28_NoTempFileLeft ==
    p_pc = "done" => (ChunkFiles = {} /\ temp_audio = "none")

\* The chunk files alone.
C28_NoChunkFileLeft == p_pc = "done" => ChunkFiles = {}

\* C30: every chunk stream_chunks plans starts at or after 0 and has a
\* positive duration, and each chunk starts CHUNK_OVERLAP before the end of the
\* one before it, for every duration and chunk size the streamer computes.
C30_ChunkPlanWellFormed ==
    \A i \in DOMAIN chunks :
        /\ chunks[i].start_time >= 0
        /\ chunks[i].duration > 0
        /\ i > 1 => (chunks[i - 1].start_time + chunks[i - 1].duration)
                        - chunks[i].start_time = Ticks(CHUNK_OVERLAP)

\* The durations and the overlap alone.
C30_PositiveDurationFixedOverlap ==
    \A i \in DOMAIN chunks :
        /\ chunks[i].duration > 0
        /\ i > 1 => (chunks[i - 1].start_time + chunks[i - 1].duration)
                        - chunks[i].start_time = Ticks(CHUNK_OVERLAP)

\* C29: two process_file executions that run at the same time never write
\* the same temporary file, whatever their (distinct) media files are, two
\* files of one directory that differ in their extension only included.
C29_TempPathsDisjoint ==
    \A j, k \in TempJobs :
        (j # k /\ t_path[j] # NoPath) => t_path[j] # t_path[k]

\* The chunk files alone.
C29_ChunkPathsDisjoint ==
    \A j, k \in TempJobs :
        (j # k /\ t_pc[j] = "chunk") => t_path[j] # t_path[k]

\* BatchManager.completed_jobs after the step
completed_jobs_after ==
    Cardinality({f \in DOMAIN tasks' : tasks'[f].status = "COMPLETED"})

\* C32: a process_files call that finds no task to start and leaves nothing
\* running does not leave the manager in the processing state, and it does not
\* change completed_jobs.
C32_NothingToStartNotProcessing ==
    [][(ProcessFiles /\ active_tasks' = {}) =>
          (~is_processing' /\ completed_jobs_after = completed_jobs)]_vars

\* The fresh manager alone: nothing tracked before the call and nothing valid
\* in the list.
C32_FreshManagerNotProcessing ==
    [][(ProcessFiles /\ DOMAIN tasks = {} /\ DOMAIN tasks' = {}) =>
          (~is_processing' /\ completed_jobs_after = completed_jobs)]_vars

\* C35: batch_completed is the last signal of a batch: the operation that
\* emits it emits no job_started, job_completed or job_failed after it.
C35_BatchCompletedIsFinal ==
    \A i, k \in DOMAIN signals :
        (i < k /\ signals[i][1] = "batch_completed") =>
            signals[k][1] \notin {"job_started", "job_completed", "job_failed"}

\* C40: stop_processing leaves no tracked task PENDING or PROCESSING.
C40_StopCancelsEveryUnfinished ==
    [][StopProcessing =>
          \A f \in DOMAIN tasks' : tasks'[f].status \notin {"PENDING", "PROCESSING"}]_vars

\* The running tasks alone.
C40_StopCancelsRunning ==
    [][StopProcessing =>
          \A f \in DOMAIN tasks' :
              /\ tasks'[f].status # "PROCESSING"
              /\ tasks[f].status = "PROCESSING" => tasks'[f].status = "CANCELLED"]_vars

\* C36: after every operation of the manager the active set is exactly the set
\* of the tasks whose status is PROCESSING, and every active task is tracked.
C36_ActiveIffProcessing ==
    /\ active_tasks \subseteq DOMAIN tasks
    /\ active_tasks = ProcessingTasks

\* C36 witness: after a stop_processing that cancelled a running task, with
\* another task PENDING, nothing is active and nothing is PROCESSING.
C36_Witness ==
    /\ \E i \in DOMAIN signals : signals[i][1] = "job_cancelled"
    /\ \E f \in DOMAIN tasks : tasks[f].status = "CANCELLED"
    /\ pending_jobs > 0
    /\ active_tasks = {}

C31_BackoffMonotoneCapped ==
    \A i \in DOMAIN delays :
        /\ delays[i].backoff = Min2(base_delay * (2 ^ (i - 1)), MAX_RETRY_DELAY)
        /\ delays[i].backoff <= MAX_RETRY_DELAY
        /\ \A k \in DOMAIN delays : i < k => delays[i].backoff <= delays[k].backoff

\* C31 witness: all MAX_RETRIES delays computed, the first below the cap and
\* the last at the cap.
C31_Witness ==
    /\ Len(delays) = MAX_RETRIES
    /\ delays[1].backoff < MAX_RETRY_DELAY
    /\ delays[MAX_RETRIES].backoff = MAX_RETRY_DELAY
    /\ base_delay * (2 ^ (MAX_RETRIES - 1)) > MAX_RETRY_DELAY

\* The chunks of the current run whose request has been answered
AnsweredChunks ==
    {i \in DOMAIN chunks : chunks[i].fut = "done" /\ chunks[i].response # "none"}

\* C34: a chunk whose answer carries an API error body (classified as
\* RetryableError) is requested again before the job sees its failure: once
\* such a chunk is finished, more requests were issued than chunks answered.
C34_ErrorAnswerRequestedAgain ==
    \A i \in AnsweredChunks :
        chunks[i].response = "error" => p_requests[p_run] > Cardinality(AnsweredChunks)

\* C34, what the worker does: transcribe_audio calls APISession.request once
\* per chunk, whatever the answer.
C34_OneRequestPerChunk ==
    p_run \in DOMAIN p_requests => p_requests[p_run] = Cardinality(AnsweredChunks)

\* C37: every run of the eviction pass terminates, also when the least
\* recently used entry's file cannot be deleted while the total size is above
\* CACHE_MAX_SIZE.
C37_EvictionPassTerminates == (c_pc = "loop") ~> (c_pc = "idle")

\* C37, the state the pass never leaves: the oldest entries' files are all
\* undeletable and the recomputed total is above the maximum.
C37_PassStuck ==
    /\ c_pc = "loop"
    /\ total_size > CACHE_MAX_SIZE
    /\ total_size = TotalSize(metadata)
    /\ OldestKeys(metadata) # {}
    /\ \A k \in OldestKeys(metadata) : k \in undeletable /\ cache_files[k] # 0

\* C37: unless the pass is stuck in that way, it terminates.
C37_TerminatesUnlessStuck == (c_pc = "loop") ~> (c_pc = "idle" \/ C37_PassStuck)

\* C38: a path returned by Cache.get names a file that exists and whose key
\* is in the metadata at the moment get returns, whatever ran beside it; and
\* get stores a metadata entry only for a file that is still there.
C38_ReturnedPathIsCached ==
    /\ [][GetReturn => (cache_files[g_key] # 0 /\ g_key \in DOMAIN metadata)]_vars
    /\ [][GetStore => cache_files[g_key] # 0]_vars

\* C39: format_subtitle terminates for every input text: the loop of
\* _balance_lines always exits.
C39_FormatSubtitleTerminates == (sub_pc = "start") ~> (sub_pc = "returned")

\* C39, the state the loop never leaves: the longest line is longer than
\* min_chars_per_line and splitting it changes nothing.
C39_BalanceStuck ==
    /\ sub_pc = "balancing"
    /\ StrLen(sub_lines[MaxIndex(sub_lines)]) > min_chars_per_line
    /\ SplitLongest(sub_lines) = sub_lines

\* C39: unless the loop is stuck in that way, the call returns.
C39_ReturnsUnlessStuck == (sub_pc = "start") ~> (sub_pc = "returned" \/ C39_BalanceStuck)

====
